---- MODULE Spec2Model ----
(***************************************************************************)
(* Redistribution core of the distributed dense linear algebra library:    *)
(* copy::ColFilter ((Collect(U),V) |-> (U,V)) and copy::Scatter            *)
(* ([CIRC,CIRC] |-> elemental distributions), run by the processes of one  *)
(* process grid that communicate by blocking message passing.              *)
(*                                                                         *)
(* Local matrices are flat column-major buffers (functions on 0..len-1)    *)
(* addressed through a leading dimension, as in the code.                  *)
(***************************************************************************)
EXTENDS Integers, Sequences, FiniteSets, TLC

VARIABLES
  op,              \* which redistribution the processes execute
  dist,            \* distribution (U,V) of the destination B
  gridH, gridW,    \* the process grid is gridH x gridW
  height, width,   \* global shape of the source A
  release,         \* build mode: TRUE when EL_DEBUG_ONLY code is compiled out
  sameGrid,        \* A.Grid() == B.Grid()
  compatDist,      \* A.ColDist() == Collect(B.ColDist()) and A.RowDist() == B.RowDist()
  colRank,         \* ColFilter: B.ColRank() of the row communicator that is modelled
  A_rowAlign,      \* A.RowAlign()
  A_root,          \* Scatter: A.Root(), a rank of A.CrossComm() (the VC communicator)
  B_colAlign,      \* B.ColAlign()
  B_rowAlign0,     \* B.RowAlign() before the call
  B_rowConstrained,\* B's row alignment is constrained (AlignRows cannot move it)
  pc,              \* per process: position in the call
  B_rowAlign,      \* per process: B.RowAlign()
  B_height,        \* per process: B.Height()
  B_width,         \* per process: B.Width()
  B_buf,           \* per process: B.Buffer(), column-major with B.LDim()
  err,             \* per process: message of the error raised, "" if none
  log,             \* per process: the steps of the call performed, in order
  net,             \* point-to-point messages in flight
  posted,          \* collective calls entered: rank -> what the caller passed
  \* qr::BusingerGolub.  Two runs on the same input are kept side by side,
  \* indexed by their alwaysRecompute argument; a norm is held as its square.
  maxSteps,        \* the maxSteps (numSteps) argument
  tol2,            \* twice the tol argument
  A_colSq,         \* per run, global column: squared norm of the whole column of A
  A_resSq,         \* per run, global column: squared norm of its rows col..m-1
  norms,           \* per run, process column: the local vector norms
  origNorms,       \* per run, process column: the local vector origNorms
  maxOrigNorm,     \* per run: maxOrigNorm
  col,             \* per run: the loop variable col
  pVec,            \* per run: the pivot vector p
  t_height,        \* per run: t.Height() (complex variants)
  pivots,          \* per run: the pivot (value, index) found at each iteration
  pcBG,            \* per run: "loop", "done", or "undefined" after an out-of-bounds access
  \* DistMatrix<T,VR,STAR>::operator=, run by every process.
  A_dist,          \* the distribution of the source A
  viaElemental,    \* A is passed as a const ElementalMatrix<T>&
  overload,        \* per process: the operator= overload to run next, "" after the return
  entered,         \* per process: the overloads entered so far, in order
  temps,           \* per process: the temporaries constructed so far, in order
  protocol,        \* per process: the copy:: routine called, "" if none yet
  \* svm::IPM on a sparse A.
  A_entries,       \* the entries of A in storage order, as <<row, col, value>>
  d,               \* the labels d, one per row of A
  Q_queue,         \* Q: the updates queued since the last commit
  Q_entries,       \* Q: the committed entries
  Q_capacity,      \* Q: the number of entries reserved
  G_queue,         \* G: the updates queued since the last commit
  G_entries,       \* G: the committed entries
  G_capacity,      \* G: the number of entries reserved
  pcIPM,           \* position in svm::IPM
  lambda,          \* the lambda argument
  ipmAt,           \* DistSparseMatrix overload, per process: sendCounts, sendOffs, offs, sendBuf, recvBuf
  qp,              \* the Q, AHat, G, b, c, h handed to QP(), <<>> before the call
  \* The distributed qr::BusingerGolub process by process: pc, log, net and
  \* posted hold each process's position, calls and messages.
  colAt,           \* per process: the loop variable col
  normsAt,         \* per process: the local vector norms
  origNormsAt,     \* per process: the local vector origNorms
  pivotAt,         \* per process: the pivot (value, index) obtained at each step
  inaccurateNorms  \* per process: the list inaccurateNorms

copyVars == <<pc, B_rowAlign, B_height, B_width, B_buf, err, log, net, posted>>

qrVars == <<maxSteps, tol2, A_colSq, A_resSq, norms, origNorms, maxOrigNorm,
            col, pVec, t_height, pivots, pcBG>>

assignVars == <<A_dist, viaElemental, overload, entered, temps, protocol>>

svmVars == <<A_entries, d, Q_queue, Q_entries, Q_capacity, G_queue, G_entries,
             G_capacity, pcIPM, lambda, ipmAt, qp>>

gridVars == <<colAt, normsAt, origNormsAt, pivotAt, inaccurateNorms>>

vars == <<op, dist, gridH, gridW, height, width, release, sameGrid, compatDist,
          colRank, A_rowAlign, A_root, B_colAlign, B_rowAlign0,
          B_rowConstrained, copyVars, qrVars, assignVars, svmVars, gridVars>>

\* What the redistribution routines leave alone.
nonCopy == <<qrVars, assignVars, svmVars, gridVars>>
\* What qr::BusingerGolub leaves alone.
nonQR == <<copyVars, assignVars, svmVars, gridVars>>
\* What operator= leaves alone.
nonAssign == <<copyVars, qrVars, svmVars, gridVars>>
\* What svm::IPM leaves alone.
nonSVM == <<copyVars, qrVars, assignVars, gridVars>>

config == <<op, dist, gridH, gridW, height, width, release, sameGrid,
            compatDist, colRank, A_rowAlign, A_root, B_colAlign, B_rowAlign0,
            B_rowConstrained>>

(***************************************************************************)
(* Bounds of the model.                                                    *)
(***************************************************************************)
MaxGridHeight == 2
MaxGridWidth == 3
MaxHeight == 2
MaxWidth == 3
\* Scatter: the largest grid (number of processes) whose interleavings are explored.
MaxProcs == 4

(***************************************************************************)
(* Values.                                                                 *)
(***************************************************************************)
\* mpi::UNDEFINED
UNDEFINED == -1
\* An entry of a freshly resized buffer that the call has not written.
Stale == 0
\* What a read outside a buffer yields.
Garbage == -2

\* The global entry A(i,j): distinct positive values.
AVal(i, j) == 1 + i + (height + 1) * j
\* The entry B(i,j) held before the call: distinct values below Garbage.
PrevVal(i, j) == 0 - (3 + i + j)

Max(a, b) == IF a >= b THEN a ELSE b

Rd(buf, k) == IF k \in DOMAIN buf THEN buf[k] ELSE Garbage

(***************************************************************************)
(* Index arithmetic.                                                       *)
(***************************************************************************)
\* C++ integer division and remainder truncate toward zero.
CDiv(a, b) == IF a >= 0 THEN a \div b ELSE 0 - ((0 - a) \div b)
CRem(a, b) == a - b * CDiv(a, b)

Mod(a, b) == a % b
Shift(rank, align, stride) == Mod(rank - align, stride)
Length(n, shift, stride) ==
  IF n > shift THEN ((n - shift - 1) \div stride) + 1 ELSE 0
MaxLength(n, stride) == IF n > 0 THEN ((n - 1) \div stride) + 1 ELSE 0
\* mpi::Pad: a collective never contributes fewer than one entry.
Pad(count) == Max(count, 1)

\* copy::util::InterleaveMatrix: B[offB + i*colStrideB + j*rowStrideB] :=
\* A[offA + i*colStrideA + j*rowStrideA] for i < h, j < w.
InterleaveMatrix(h, w, A, offA, colStrideA, rowStrideA, B, offB, colStrideB, rowStrideB) ==
  [k \in DOMAIN B |->
     IF \E i \in 0..(h - 1), j \in 0..(w - 1) :
          k = offB + i * colStrideB + j * rowStrideB
     THEN LET ij == CHOOSE ij \in (0..(h - 1)) \X (0..(w - 1)) :
                      k = offB + ij[1] * colStrideB + ij[2] * rowStrideB
          IN  Rd(A, offA + ij[1] * colStrideA + ij[2] * rowStrideA)
     ELSE B[k]]

Buffer(len, v) == [k \in 0..(len - 1) |-> v]

\* copy::util::StridedPack: for every (k,l) of the colStride x rowStride grid
\* the rows of shift Shift(k,colAlign,colStride) and the columns of shift
\* Shift(l,rowAlign,rowStride) are interleaved, with leading dimension their
\* local height, into portion k + l*colStride of the send buffer.
StridedPack(m, n, colAlign, colStride, rowAlign, rowStride, A, ALDim, portionSize) ==
  [x \in 0..(colStride * rowStride * portionSize - 1) |->
     LET q == x \div portionSize
         t == x % portionSize
         k == q % colStride
         l == q \div colStride
         cShift == Shift(k, colAlign, colStride)
         rShift == Shift(l, rowAlign, rowStride)
         lh == Length(m, cShift, colStride)
         lw == Length(n, rShift, rowStride)
     IN  IF t < lh * lw
         THEN Rd(A, (cShift + (t % lh) * colStride)
                    + (rShift + (t \div lh) * rowStride) * ALDim)
         ELSE Stale]

(***************************************************************************)
(* The process grid.  In Scatter a process is named by its rank in the VC  *)
(* communicator (column-major); the process VRSize is outside the grid.    *)
(* In ColFilter the processes are those of one row communicator of B,      *)
(* named by B.RowRank(); under "ColFilterOffGrid" the process RowStride,   *)
(* which is outside the grid of B, makes the call as well.                 *)
(***************************************************************************)
VRSize == gridH * gridW
\* The operations that run copy::ColFilter_impl.
ColFilterOps == {"ColFilter", "ColFilterOffGrid"}

(***************************************************************************)
(* Distribution descriptors.                                               *)
(***************************************************************************)
\* [VR,STAR]
VRSTAR_DistSize == VRSize
VRSTAR_CrossSize == 1
\* Mutant: the matrix replicated over the process rows, as under [MC,STAR].
VRSTAR_RedundantSize_GridWidth == gridW
VRSTAR_RedundantSize == 1
VRSTAR_ColStride == VRSize
\* Mutant: the row stride of [MC,MR] returned for [VR,STAR].
VRSTAR_RowStride_GridWidth == gridW
VRSTAR_RowStride == 1
\* Grid().MRSize() and Grid().MCSize()
VRSTAR_PartialColStride == gridW
VRSTAR_PartialUnionColStride == gridH

ColStride ==
  CASE dist = "MC_MR" -> gridH
    [] dist = "VR_STAR" -> VRSTAR_ColStride
    [] dist = "MC_STAR" -> gridH
    [] dist = "STAR_STAR" -> 1
    [] dist = "CIRC_CIRC" -> 1
    [] dist \in {"MR_MC", "MR_STAR"} -> gridW
    [] dist \in {"STAR_MC", "STAR_MR", "STAR_VC", "STAR_VR"} -> 1
    [] dist = "VC_STAR" -> VRSize
RowStride ==
  CASE dist = "MC_MR" -> gridW
    [] dist = "VR_STAR" -> VRSTAR_RowStride
    [] dist = "MC_STAR" -> 1
    [] dist = "STAR_STAR" -> 1
    [] dist = "CIRC_CIRC" -> 1
    [] dist \in {"MR_MC", "STAR_MC"} -> gridH
    [] dist = "STAR_MR" -> gridW
    [] dist \in {"MR_STAR", "VC_STAR"} -> 1
    [] dist \in {"STAR_VC", "STAR_VR"} -> VRSize
DistSize ==
  CASE dist = "MC_MR" -> gridH * gridW
    [] dist = "VR_STAR" -> VRSTAR_DistSize
    [] dist = "MC_STAR" -> gridH
    [] dist = "STAR_STAR" -> 1
CrossSize ==
  CASE dist = "VR_STAR" -> VRSTAR_CrossSize
    [] OTHER -> 1
RedundantSize ==
  CASE dist = "MC_MR" -> 1
    [] dist = "VR_STAR" -> VRSTAR_RedundantSize
    [] dist = "MC_STAR" -> gridW
    [] dist = "STAR_STAR" -> gridH * gridW

\* Grid::InGrid() on process p.
InGrid(p) ==
  CASE op = "ColFilter" -> TRUE
    [] op = "ColFilterOffGrid" -> p < RowStride
    [] OTHER -> p < VRSize
MCRank(p) == IF InGrid(p) THEN p % gridH ELSE UNDEFINED
MRRank(p) == IF InGrid(p) THEN p \div gridH ELSE UNDEFINED
VRRank(p) == IF InGrid(p) THEN MRRank(p) + MCRank(p) * gridW ELSE UNDEFINED

VRSTAR_DistRank(p) == VRRank(p)
VRSTAR_CrossRank(p) == IF InGrid(p) THEN 0 ELSE UNDEFINED
VRSTAR_RedundantRank(p) == IF InGrid(p) THEN 0 ELSE UNDEFINED
VRSTAR_ColRank(p) == VRRank(p)
VRSTAR_RowRank(p) == IF InGrid(p) THEN 0 ELSE UNDEFINED

ColRank(p) ==
  IF op \in ColFilterOps THEN colRank
  ELSE CASE dist = "MC_MR" -> MCRank(p)
         [] dist = "VR_STAR" -> VRSTAR_ColRank(p)
         [] dist = "MC_STAR" -> MCRank(p)
         [] dist = "STAR_STAR" -> 0
RowRank(p) ==
  IF op \in ColFilterOps THEN p
  ELSE CASE dist = "MC_MR" -> MRRank(p)
         [] dist = "VR_STAR" -> VRSTAR_RowRank(p)
         [] OTHER -> 0
DistRank(p) ==
  CASE dist = "MC_MR" -> p
    [] dist = "VR_STAR" -> VRSTAR_DistRank(p)
    [] dist = "MC_STAR" -> MCRank(p)
    [] dist = "STAR_STAR" -> IF InGrid(p) THEN 0 ELSE UNDEFINED
\* CrossRank(), RedundantRank() and Root() of a matrix distributed by dist:
\* the cross communicator is the VC communicator under [CIRC,CIRC] and is
\* trivial otherwise; the redundant communicator is the one over which the
\* matrix is replicated.
CrossRank(p) ==
  CASE dist = "CIRC_CIRC" -> IF InGrid(p) THEN p ELSE UNDEFINED
    [] dist = "VR_STAR" -> VRSTAR_CrossRank(p)
    [] OTHER -> IF InGrid(p) THEN 0 ELSE UNDEFINED
RedundantRank(p) ==
  CASE dist \in {"MC_STAR", "STAR_MC"} -> MRRank(p)
    [] dist \in {"MR_STAR", "STAR_MR"} -> MCRank(p)
    [] dist = "STAR_STAR" -> IF InGrid(p) THEN p ELSE UNDEFINED
    [] dist = "VR_STAR" -> VRSTAR_RedundantRank(p)
    [] OTHER -> IF InGrid(p) THEN 0 ELSE UNDEFINED
Root == IF dist = "CIRC_CIRC" THEN A_root ELSE 0

\* q belongs to the DistComm of B on process p.
InDistComm(p, q) ==
  CASE dist = "MC_STAR" -> MRRank(p) = MRRank(q)
    [] dist = "STAR_STAR" -> p = q
    [] OTHER -> TRUE

Procs ==
  CASE op = "ColFilter" -> 0..(RowStride - 1)
    [] op = "ColFilterOffGrid" -> 0..RowStride
    [] OTHER -> 0..VRSize

\* B.Participating()
B_Participating(p) == InGrid(p)

ColShift(p) == Shift(ColRank(p), B_colAlign, ColStride)
RowShift(p, rowAlign) == Shift(RowRank(p), rowAlign, RowStride)

\* Local shape and storage of B on process p for a global shape and alignment.
LocalHeightOf(p, h) == IF B_Participating(p) THEN Length(h, ColShift(p), ColStride) ELSE 0
LocalWidthOf(p, w, rowAlign) ==
  IF B_Participating(p) THEN Length(w, RowShift(p, rowAlign), RowStride) ELSE 0
LDimOf(lh) == Max(lh, 1)

B_LocalHeight(p) == LocalHeightOf(p, B_height[p])
B_LocalWidth(p) == LocalWidthOf(p, B_width[p], B_rowAlign[p])
B_LDim(p) == LDimOf(B_LocalHeight(p))

\* The local matrix of B after a Resize to height x width under rowAlign:
\* reallocated on a participating process, left alone elsewhere.
ResizedBufferOf(p, rowAlign) ==
  IF B_Participating(p)
  THEN Buffer(LDimOf(LocalHeightOf(p, height)) * LocalWidthOf(p, width, rowAlign), Stale)
  ELSE B_buf[p]

\* The source A of ColFilter on process p: all rows (Collect(U) = STAR), the
\* columns of row rank p under A.RowAlign().  With incompatible distributions
\* A is distributed like B in its columns as well.
A_LocalHeight ==
  IF compatDist THEN height ELSE Length(height, Shift(colRank, 0, ColStride), ColStride)
A_RowOf(iLoc) ==
  IF compatDist THEN iLoc ELSE Shift(colRank, 0, ColStride) + iLoc * ColStride
A_LocalWidth(p) == Length(width, RowShift(p, A_rowAlign), RowStride)
A_LDim == Max(A_LocalHeight, 1)
A_LockedBuffer(p) ==
  [k \in 0..(A_LDim * A_LocalWidth(p) - 1) |->
     IF (k % A_LDim) < A_LocalHeight
     THEN AVal(A_RowOf(k % A_LDim),
               RowShift(p, A_rowAlign) + (k \div A_LDim) * RowStride)
     ELSE Stale]

\* The source A of Scatter, [CIRC,CIRC]: the whole matrix on the root.
A_CrossRank(p) == IF InGrid(p) THEN p ELSE UNDEFINED
A_Participating(p) == InGrid(p) /\ A_CrossRank(p) = A_root
A_CIRC_LDim == Max(height, 1)
A_LockedMatrix(p) ==
  IF A_Participating(p)
  THEN [k \in 0..(A_CIRC_LDim * width - 1) |->
          IF (k % A_CIRC_LDim) < height
          THEN AVal(k % A_CIRC_LDim, k \div A_CIRC_LDim) ELSE Stale]
  ELSE Buffer(0, Stale)

Raise(p, msg) ==
  /\ pc' = [pc EXCEPT ![p] = "error"]
  /\ err' = [err EXCEPT ![p] = msg]
  /\ UNCHANGED <<B_rowAlign, B_height, B_width, B_buf, log, net, posted>>

(***************************************************************************)
(* copy::ColFilter_impl                                                    *)
(***************************************************************************)
\* EL_DEBUG_ONLY( ... LogicError("Incompatible distributions") )
\* Mutant: the descriptor check also compiled into release builds.
CF_DistError_AllBuilds == ~compatDist
CF_DistError == ~release /\ ~compatDist
\* AssertSameGrids( A, B )
\* Mutant: the grid check inside EL_DEBUG_ONLY.
CF_GridError_DebugOnly == ~release /\ ~sameGrid
CF_GridError == ~sameGrid

\* B.AlignRowsAndResize( A.RowAlign(), A.Height(), A.Width(), false, false )
AlignedRowAlign(p) ==
  IF B_rowConstrained THEN B_rowAlign[p] ELSE Mod(A_rowAlign, RowStride)

localHeight(p) == LocalHeightOf(p, height)
localWidth(p) == LocalWidthOf(p, width, AlignedRowAlign(p))

rowDiff(p) == AlignedRowAlign(p) - A_rowAlign

\* Mutant: the partner rank taken with the remainder of C++.
recvRowRank_Remainder(p) == CRem(RowRank(p) - rowDiff(p), RowStride)
\* Mutants: the sign of rowDiff flipped in one of the two partner ranks.
sendRowRank_Minus(p) == Mod(RowRank(p) - rowDiff(p), RowStride)
recvRowRank_Plus(p) == Mod(RowRank(p) + rowDiff(p), RowStride)
sendRowRank(p) == Mod(RowRank(p) + rowDiff(p), RowStride)
recvRowRank(p) == Mod(RowRank(p) - rowDiff(p), RowStride)
\* Mutant: the sender counts the columns of B it holds, not those of A.
localWidthA_OfB(p) == localWidth(p)
localWidthA(p) == A_LocalWidth(p)
sendSize(p) == localHeight(p) * localWidthA(p)
recvSize(p) == localHeight(p) * localWidth(p)

\* Mutant: the aligned copy starts at row 0 of A instead of row colShift.
AlignedCopy_FromRowZero(p) ==
  InterleaveMatrix(localHeight(p), localWidth(p),
                   A_LockedBuffer(p), 0, ColStride, A_LDim,
                   ResizedBufferOf(p, AlignedRowAlign(p)), 0, 1, LDimOf(localHeight(p)))

\* Mutant: A is read with the leading dimension of B.
AlignedCopy_DestLDim(p) ==
  InterleaveMatrix(localHeight(p), localWidth(p),
                   A_LockedBuffer(p), ColShift(p), ColStride, LDimOf(localHeight(p)),
                   ResizedBufferOf(p, AlignedRowAlign(p)), 0, 1, LDimOf(localHeight(p)))

\* Aligned branch: strided copy of A's local rows colShift, colShift+colStride, ..
AlignedCopy(p) ==
  InterleaveMatrix(localHeight(p), localWidth(p),
                   A_LockedBuffer(p), ColShift(p), ColStride, A_LDim,
                   ResizedBufferOf(p, AlignedRowAlign(p)), 0, 1, LDimOf(localHeight(p)))

\* Mutant: the pack starts at row 0 of A instead of row colShift.
PackedColumns_FromRowZero(p) ==
  InterleaveMatrix(localHeight(p), localWidthA(p),
                   A_LockedBuffer(p), 0, ColStride, A_LDim,
                   Buffer(sendSize(p), Stale), 0, 1, localHeight(p))

\* Unaligned branch, pack: the send buffer has leading dimension localHeight.
PackedColumns(p) ==
  InterleaveMatrix(localHeight(p), localWidthA(p),
                   A_LockedBuffer(p), ColShift(p), ColStride, A_LDim,
                   Buffer(sendSize(p), Stale), 0, 1, localHeight(p))

\* Mutant: the unpack leaves out the last local row.
Unpacked_ShortColumns(p, recvBuf) ==
  InterleaveMatrix(Max(B_LocalHeight(p) - 1, 0), B_LocalWidth(p),
                   recvBuf, 0, 1, B_LocalHeight(p),
                   B_buf[p], 0, 1, B_LDim(p))

\* Unpack of a received buffer of leading dimension LocalHeight into B.
Unpacked(p, recvBuf) ==
  InterleaveMatrix(B_LocalHeight(p), B_LocalWidth(p),
                   recvBuf, 0, 1, B_LocalHeight(p),
                   B_buf[p], 0, 1, B_LDim(p))

\* if( !B.Participating() ) return;
\* Mutant: the early return of a non-participating process removed.
CF_NotParticipating_Never(p) == FALSE
CF_NotParticipating(p) == ~B_Participating(p)

\* The call up to the point where it returns or blocks in mpi::SendRecv.
ColFilter_impl(p) ==
  /\ op \in ColFilterOps
  /\ pc[p] = "call"
  /\ UNCHANGED <<config, nonCopy>>
  /\ IF CF_DistError THEN Raise(p, "Incompatible distributions")
     ELSE IF CF_GridError THEN Raise(p, "Grids did not match")
     ELSE
       /\ B_rowAlign' = [B_rowAlign EXCEPT ![p] = AlignedRowAlign(p)]
       /\ B_height' = [B_height EXCEPT ![p] = height]
       /\ B_width' = [B_width EXCEPT ![p] = width]
       /\ UNCHANGED <<err, posted>>
       /\ IF CF_NotParticipating(p)
          THEN /\ B_buf' = [B_buf EXCEPT ![p] = ResizedBufferOf(p, AlignedRowAlign(p))]
               /\ log' = [log EXCEPT ![p] = <<"AlignRowsAndResize">>]
               /\ pc' = [pc EXCEPT ![p] = "done"]
               /\ UNCHANGED net
          ELSE IF rowDiff(p) = 0
          THEN /\ B_buf' = [B_buf EXCEPT ![p] = AlignedCopy(p)]
               /\ log' = [log EXCEPT ![p] =
                            <<"AlignRowsAndResize", "InterleaveMatrix">>]
               /\ pc' = [pc EXCEPT ![p] = "done"]
               /\ UNCHANGED net
          ELSE /\ B_buf' = [B_buf EXCEPT ![p] =
                              ResizedBufferOf(p, AlignedRowAlign(p))]
               /\ log' = [log EXCEPT ![p] =
                            <<"AlignRowsAndResize", "Pack", "SendRecv">>]
               /\ net' = net \cup {[src |-> p, dst |-> sendRowRank(p),
                                    data |-> PackedColumns(p)]}
               /\ pc' = [pc EXCEPT ![p] = "sendrecv"]

\* mpi::SendRecv completes once the message of recvRowRank has arrived.  A
\* message longer than recvSize is an MPI truncation error; otherwise it is
\* received and unpacked into B.
ColFilter_SendRecv(p) ==
  /\ op \in ColFilterOps
  /\ pc[p] = "sendrecv"
  /\ UNCHANGED <<config, nonCopy>>
  /\ \E m \in net :
       /\ m.dst = p
       /\ m.src = recvRowRank(p)
       /\ net' = net \ {m}
       /\ IF Cardinality(DOMAIN m.data) > recvSize(p)
          THEN /\ pc' = [pc EXCEPT ![p] = "error"]
               /\ err' = [err EXCEPT ![p] = "Message truncated"]
               /\ UNCHANGED <<B_buf, log>>
          ELSE /\ B_buf' = [B_buf EXCEPT ![p] = Unpacked(p, m.data)]
               /\ log' = [log EXCEPT ![p] = Append(@, "Unpack")]
               /\ pc' = [pc EXCEPT ![p] = "done"]
               /\ UNCHANGED err
  /\ UNCHANGED <<B_rowAlign, B_height, B_width, posted>>

\* B before the call: a 1 x 1 matrix holding PrevVal(0,0) on its owners.
PrevBuffer(p) ==
  IF B_Participating(p) /\ ColShift(p) = 0 /\ RowShift(p, B_rowAlign0) = 0
  THEN Buffer(1, PrevVal(0, 0)) ELSE Buffer(0, Stale)

\* No assignment is in progress.
IdleAssign ==
  /\ A_dist = "" /\ viaElemental = FALSE
  /\ overload = <<>> /\ entered = <<>> /\ temps = <<>> /\ protocol = <<>>

\* No support vector machine is being set up.
IdleSVM ==
  /\ A_entries = <<>> /\ d = <<>>
  /\ Q_queue = <<>> /\ Q_entries = <<>> /\ Q_capacity = 0
  /\ G_queue = <<>> /\ G_entries = <<>> /\ G_capacity = 0
  /\ pcIPM = ""
  /\ lambda = 0 /\ ipmAt = <<>> /\ qp = <<>>

\* No process runs the distributed factorization.
IdleGrid ==
  /\ colAt = <<>> /\ normsAt = <<>> /\ origNormsAt = <<>> /\ pivotAt = <<>>
  /\ inaccurateNorms = <<>>

\* No factorization is in progress.
IdleQR ==
  /\ maxSteps = 0 /\ tol2 = 0
  /\ A_colSq = <<>> /\ A_resSq = <<>> /\ norms = <<>> /\ origNorms = <<>>
  /\ maxOrigNorm = <<>> /\ col = <<>> /\ pVec = <<>> /\ t_height = <<>>
  /\ pivots = <<>> /\ pcBG = <<>>

InitProcesses ==
  /\ pc = [q \in Procs |-> "call"]
  /\ B_rowAlign = [q \in Procs |-> B_rowAlign0]
  /\ B_height = [q \in Procs |-> 1]
  /\ B_width = [q \in Procs |-> 1]
  /\ B_buf = [q \in Procs |-> PrevBuffer(q)]
  /\ err = [q \in Procs |-> ""]
  /\ log = [q \in Procs |-> <<>>]
  /\ net = {}
  /\ posted = <<>>
  /\ IdleQR
  /\ IdleAssign
  /\ IdleSVM
  /\ IdleGrid

InitColFilter ==
  /\ op = "ColFilter"
  /\ dist \in {"MC_MR", "VR_STAR"}
  /\ gridH \in 1..MaxGridHeight
  /\ gridW \in 1..MaxGridWidth
  /\ height \in 0..MaxHeight
  /\ width \in 0..MaxWidth
  /\ sameGrid \in BOOLEAN
  /\ compatDist \in BOOLEAN
  \* The build mode is varied where exactly one check is at stake: with
  \* matching grids and compatible distributions both builds run the same
  \* code, and with both preconditions broken the debug build shows which
  \* check comes first.
  /\ release \in (IF sameGrid = compatDist THEN {FALSE} ELSE BOOLEAN)
  /\ colRank \in 0..(ColStride - 1)
  /\ B_colAlign \in 0..(ColStride - 1)
  /\ A_rowAlign \in 0..(RowStride - 1)
  /\ B_rowAlign0 \in 0..(RowStride - 1)
  \* When a check fires B's constraint is never read; B is then left free
  \* to be realigned, so that an untouched alignment is the check's doing.
  /\ B_rowConstrained \in (IF CF_DistError \/ CF_GridError THEN {FALSE} ELSE BOOLEAN)
  /\ A_root = 0
  /\ InitProcesses

NextColFilter ==
  \/ \E p \in Procs : ColFilter_impl(p)
  \/ \E p \in Procs : ColFilter_SendRecv(p)

SpecColFilter == InitColFilter /\ [][NextColFilter]_vars

(***************************************************************************)
(* copy::Scatter, [CIRC,CIRC] |-> ElementalMatrix                          *)
(***************************************************************************)
\* AssertSameGrids(A, B)
SC_GridError == ~sameGrid

\* if (B.CrossSize() != 1 || B.RedundantSize() != 1) GeneralPurpose(A, B)
\* Mutant: only the cross communicator is tested.
SC_Redundant_CrossOnly == CrossSize # 1
SC_Redundant == CrossSize # 1 \/ RedundantSize # 1

\* Mutant: the portion sized by the rounded-down local lengths.
pkgSize_RoundedDown == Pad((height \div ColStride) * (width \div RowStride))
pkgSize == Pad(MaxLength(height, ColStride) * MaxLength(width, RowStride))
scatterRecvSize == pkgSize
scatterSendSize == DistSize * pkgSize

\* mpi::Translate(comm of p, rank, B.DistComm()): the rank in B's DistComm
\* of the process that has rank `rank` in the VC communicator, UNDEFINED
\* when there is none (a process outside the grid has null communicators).
Translate(p, rank) ==
  IF InGrid(p) /\ InGrid(rank) /\ InDistComm(p, rank) THEN DistRank(rank) ELSE UNDEFINED

root == A_root
\* Mutant: the root of A passed to mpi::Scatter without translation.
target_Untranslated(p) == IF Translate(p, root) = UNDEFINED THEN UNDEFINED ELSE root
target(p) == Translate(p, root)

\* Mutant: every process but the root of A returns early.
SC_NoTarget_NonRoot(p) == target(p) = UNDEFINED \/ A_CrossRank(p) # root
\* Mutant: the early return on an undefined target removed.
SC_NoTarget_Never(p) == FALSE
SC_NoTarget(p) == target(p) = UNDEFINED

\* Mutant: the alignments of B are not passed to the pack.
SC_SendBuf_Unaligned(p) ==
  StridedPack(height, width, 0, ColStride, 0, RowStride,
              A_LockedMatrix(p), A_CIRC_LDim, pkgSize)
\* The root's send buffer.
SC_SendBuf(p) ==
  StridedPack(height, width, B_colAlign, ColStride, B_rowAlign[p], RowStride,
              A_LockedMatrix(p), A_CIRC_LDim, pkgSize)

\* copy::GeneralPurpose(A, B): B's local matrix receives the entries it owns.
GeneralPurpose(p) ==
  IF B_Participating(p)
  THEN LET lh == LocalHeightOf(p, height)
           lw == LocalWidthOf(p, width, B_rowAlign[p])
       IN [k \in 0..(LDimOf(lh) * lw - 1) |->
             IF (k % LDimOf(lh)) < lh
             THEN AVal(ColShift(p) + (k % LDimOf(lh)) * ColStride,
                       RowShift(p, B_rowAlign[p]) + (k \div LDimOf(lh)) * RowStride)
             ELSE Stale]
  ELSE B_buf[p]

\* The call up to the point where it returns or blocks in mpi::Scatter.
Scatter(p) ==
  /\ op = "Scatter"
  /\ pc[p] = "call"
  /\ UNCHANGED <<config, nonCopy>>
  /\ IF SC_GridError THEN Raise(p, "Grids did not match")
     ELSE
       /\ B_height' = [B_height EXCEPT ![p] = height]
       /\ B_width' = [B_width EXCEPT ![p] = width]
       /\ UNCHANGED <<B_rowAlign, err, net>>
       /\ IF SC_Redundant
          THEN /\ B_buf' = [B_buf EXCEPT ![p] = GeneralPurpose(p)]
               /\ log' = [log EXCEPT ![p] = <<"Resize", "GeneralPurpose">>]
               /\ pc' = [pc EXCEPT ![p] = "done"]
               /\ UNCHANGED posted
          ELSE IF SC_NoTarget(p)
          THEN /\ B_buf' = [B_buf EXCEPT ![p] = ResizedBufferOf(p, B_rowAlign[p])]
               /\ log' = [log EXCEPT ![p] = <<"Resize", "Translate">>]
               /\ pc' = [pc EXCEPT ![p] = "done"]
               /\ UNCHANGED posted
          ELSE IF DistSize = 1
          THEN /\ B_buf' = [B_buf EXCEPT ![p] = A_LockedMatrix(p)]
               /\ log' = [log EXCEPT ![p] = <<"Resize", "Translate", "Copy">>]
               /\ pc' = [pc EXCEPT ![p] = "done"]
               /\ UNCHANGED posted
          ELSE
               /\ B_buf' = [B_buf EXCEPT ![p] = ResizedBufferOf(p, B_rowAlign[p])]
               /\ pc' = [pc EXCEPT ![p] = "scatter"]
               /\ IF A_CrossRank(p) = root
                  THEN /\ log' = [log EXCEPT ![p] =
                                    <<"Resize", "Translate", "StridedPack", "Scatter">>]
                       /\ posted' = (DistRank(p) :>
                                       [root |-> target(p), count |-> pkgSize,
                                        null |-> FALSE, buf |-> SC_SendBuf(p)])
                                    @@ posted
                  ELSE /\ log' = [log EXCEPT ![p] =
                                    <<"Resize", "Translate", "Scatter">>]
                       /\ posted' = (DistRank(p) :>
                                       [root |-> target(p), count |-> pkgSize,
                                        null |-> TRUE, buf |-> Buffer(0, Stale)])
                                    @@ posted

\* mpi::Scatter completes on a process once the root of the collective has
\* entered it: the process receives portion DistRank of the root's send
\* buffer and unpacks it into B.
Scatter_Unpack(p) ==
  /\ op = "Scatter"
  /\ pc[p] = "scatter"
  /\ UNCHANGED <<config, nonCopy>>
  /\ target(p) \in DOMAIN posted
  /\ LET sent == posted[target(p)]
         recvBuf == [k \in 0..(scatterRecvSize - 1) |->
                       Rd(sent.buf, DistRank(p) * sent.count + k)]
     IN  IF sent.null
         THEN /\ pc' = [pc EXCEPT ![p] = "error"]
              /\ err' = [err EXCEPT ![p] = "Null send buffer at the root"]
              /\ UNCHANGED <<B_buf, log>>
         ELSE /\ B_buf' = [B_buf EXCEPT ![p] = Unpacked(p, recvBuf)]
              /\ log' = [log EXCEPT ![p] = Append(@, "Unpack")]
              /\ pc' = [pc EXCEPT ![p] = "done"]
              /\ UNCHANGED err
  /\ UNCHANGED <<B_rowAlign, B_height, B_width, net, posted>>

\* The grids whose Scatter is explored.
ScatterGrids ==
  {g \in (1..MaxGridHeight) \X (1..MaxGridWidth) : g[1] * g[2] <= MaxProcs}

InitScatter ==
  /\ op = "Scatter"
  /\ \/ /\ dist \in {"MC_MR", "VR_STAR", "MC_STAR"}
        /\ \E g \in ScatterGrids : gridH = g[1] /\ gridW = g[2]
        /\ height \in 0..MaxHeight
        /\ width \in 0..MaxWidth
        /\ sameGrid \in BOOLEAN
        \* Scatter has no debug-only code: the build mode is varied where
        \* the grid check fires.
        /\ release \in (IF sameGrid THEN {FALSE} ELSE BOOLEAN)
        /\ A_root \in 0..(VRSize - 1)
        /\ B_colAlign \in 0..(ColStride - 1)
        /\ B_rowAlign0 \in 0..(RowStride - 1)
     \/ \* a 6 x 6 matrix scattered onto a 3 x 2 grid under [MC,MR]
        /\ dist = "MC_MR"
        /\ gridH = 3 /\ gridW = 2
        /\ height = 6 /\ width = 6
        /\ release = FALSE /\ sameGrid = TRUE
        /\ A_root \in {0, 4}
        /\ B_colAlign \in {0, 2}
        /\ B_rowAlign0 \in {0, 1}
  /\ compatDist = TRUE
  /\ colRank = 0
  /\ A_rowAlign = 0
  /\ B_rowConstrained = FALSE
  /\ InitProcesses

NextScatter ==
  \/ \E p \in Procs : Scatter(p)
  \/ \E p \in Procs : Scatter_Unpack(p)

SpecScatter == InitScatter /\ [][NextScatter]_vars

(***************************************************************************)
(* copy::Scatter, [CIRC,CIRC] |-> [STAR,STAR]                              *)
(***************************************************************************)
SS_GridError == ~sameGrid

\* Mutant: the broadcast is rooted at the rank after A.Root().
SS_BcastRoot_Next == (A_root + 1) % VRSize
\* El::Broadcast(B, A.CrossComm(), A.Root())
SS_BcastRoot == A_root

\* B.Matrix() = A.LockedMatrix() on the root of A; B is only resized elsewhere.
SS_LocalCopy(p) ==
  IF A_Participating(p) THEN A_LockedMatrix(p) ELSE ResizedBufferOf(p, B_rowAlign[p])

\* The call up to the point where it returns or blocks in the broadcast.
Scatter_STAR_STAR(p) ==
  /\ op = "ScatterStar"
  /\ pc[p] = "call"
  /\ UNCHANGED <<config, nonCopy>>
  /\ IF SS_GridError THEN Raise(p, "Grids did not match")
     ELSE
       /\ B_height' = [B_height EXCEPT ![p] = height]
       /\ B_width' = [B_width EXCEPT ![p] = width]
       /\ UNCHANGED <<B_rowAlign, err, net>>
       /\ IF B_Participating(p)
          THEN /\ B_buf' = [B_buf EXCEPT ![p] = SS_LocalCopy(p)]
               /\ log' = [log EXCEPT ![p] =
                            IF A_Participating(p)
                            THEN <<"Resize", "Copy", "Broadcast">>
                            ELSE <<"Resize", "Broadcast">>]
               /\ posted' = (A_CrossRank(p) :>
                               [root |-> SS_BcastRoot, buf |-> SS_LocalCopy(p)])
                            @@ posted
               /\ pc' = [pc EXCEPT ![p] = "bcast"]
          ELSE /\ log' = [log EXCEPT ![p] = <<"Resize">>]
               /\ pc' = [pc EXCEPT ![p] = "done"]
               /\ UNCHANGED <<B_buf, posted>>

\* The broadcast completes on a process once its root has entered it: every
\* other process receives the root's local matrix into its own.
Broadcast(p) ==
  /\ op = "ScatterStar"
  /\ pc[p] = "bcast"
  /\ UNCHANGED <<config, nonCopy>>
  /\ posted[A_CrossRank(p)].root \in DOMAIN posted
  /\ LET sent == posted[posted[A_CrossRank(p)].root]
     IN  B_buf' = [B_buf EXCEPT ![p] =
                     IF A_CrossRank(p) = posted[A_CrossRank(p)].root THEN @
                     ELSE [k \in DOMAIN @ |-> Rd(sent.buf, k)]]
  /\ pc' = [pc EXCEPT ![p] = "done"]
  /\ UNCHANGED <<B_rowAlign, B_height, B_width, err, log, net, posted>>

InitScatterStar ==
  /\ op = "ScatterStar"
  /\ dist = "STAR_STAR"
  /\ \E g \in ScatterGrids : gridH = g[1] /\ gridW = g[2]
  /\ height \in 0..MaxHeight
  /\ width \in 0..MaxWidth
  /\ sameGrid \in BOOLEAN
  /\ release \in (IF sameGrid THEN {FALSE} ELSE BOOLEAN)
  /\ A_root \in 0..(VRSize - 1)
  /\ B_colAlign = 0
  /\ B_rowAlign0 = 0
  /\ compatDist = TRUE
  /\ colRank = 0
  /\ A_rowAlign = 0
  /\ B_rowConstrained = FALSE
  /\ InitProcesses

NextScatterStar ==
  \/ \E p \in Procs : Scatter_STAR_STAR(p)
  \/ \E p \in Procs : Broadcast(p)

SpecScatterStar == InitScatterStar /\ [][NextScatterStar]_vars

(***************************************************************************)
(* ColFilter and both Scatter overloads together.                          *)
(***************************************************************************)
InitCopy == InitColFilter \/ InitScatter \/ InitScatterStar
NextCopy == NextColFilter \/ NextScatter \/ NextScatterStar
SpecCopy == InitCopy /\ [][NextCopy]_vars

(***************************************************************************)
(* Ownership under B's distribution, stated from the alignments and ranks: *)
(* the alignment is the rank that owns global index 0, and index i belongs *)
(* to rank (i + align) mod stride.                                         *)
(***************************************************************************)
OwnsRow(p, i) == Mod(i + B_colAlign, ColStride) = ColRank(p)
OwnsCol(p, j) == Mod(j + B_rowAlign[p], RowStride) = RowRank(p)
LocalRow(p, i) == (i - Mod(ColRank(p) - B_colAlign, ColStride)) \div ColStride
LocalCol(p, j) == (j - Mod(RowRank(p) - B_rowAlign[p], RowStride)) \div RowStride
OwnedRows(p, h) == {i \in 0..(h - 1) : OwnsRow(p, i)}
OwnedCols(p, w) == {j \in 0..(w - 1) : OwnsCol(p, j)}
B_Get(p, i, j) ==
  Rd(B_buf[p], LocalRow(p, i) + LocalCol(p, j) * Max(Cardinality(OwnedRows(p, B_height[p])), 1))

Returned(p) == pc[p] \in {"done", "error"}
Unaligned(p) == B_rowAlign[p] # A_rowAlign
Count(s, x) == Cardinality({k \in DOMAIN s : s[k] = x})

(***************************************************************************)
(* C1: ColFilter preserves values.  With A distributed (Collect(U),V) and  *)
(* B distributed (U,V) on the same grid, a process that has returned from  *)
(* ColFilter holds in its local buffer of B the value A(i,j) for every     *)
(* global (i,j) it owns under B's distribution; B has A's shape and its    *)
(* local buffer has exactly the size of the owned index set.  This covers  *)
(* the aligned and the unaligned path and empty matrices.                  *)
(***************************************************************************)
CF_ValuePreserved ==
  (op = "ColFilter" /\ sameGrid /\ compatDist) =>
    \A p \in Procs :
      pc[p] = "done" =>
        /\ B_height[p] = height /\ B_width[p] = width
        /\ Cardinality(DOMAIN B_buf[p]) =
             Max(Cardinality(OwnedRows(p, height)), 1) * Cardinality(OwnedCols(p, width))
        /\ \A i \in OwnedRows(p, height), j \in OwnedCols(p, width) :
             B_Get(p, i, j) = AVal(i, j)

CF_ValuePreserved_Witness ==
  /\ op = "ColFilter" /\ sameGrid /\ compatDist
  /\ ColStride >= 2 /\ RowStride >= 3 /\ colRank # B_colAlign
  /\ height >= 2 /\ width >= 3
  /\ \A p \in Procs : pc[p] = "done" /\ Unaligned(p)
  /\ \E p \in Procs : OwnedRows(p, height) # {} /\ OwnedCols(p, width) # {}

(***************************************************************************)
(* C3: in the misaligned path every process packs, performs exactly one    *)
(* SendRecv and then unpacks; the exchanges are matched (the receive       *)
(* source of rank sendRowRank(r) is r, and every message in flight is      *)
(* addressed to a process that expects it from its sender); once every     *)
(* process of the row communicator has made the call, some process blocked *)
(* in SendRecv can complete it, so none blocks forever, and when all       *)
(* processes have returned no message is left undelivered.                 *)
(***************************************************************************)
CF_ExchangeMatched ==
  op = "ColFilter" =>
    /\ \A p \in Procs :
         (pc[p] \in {"sendrecv", "done"} /\ Unaligned(p)) =>
           /\ recvRowRank(sendRowRank(p)) = p
           /\ Count(log[p], "SendRecv") = 1
           /\ pc[p] = "sendrecv" => log[p] = <<"AlignRowsAndResize", "Pack", "SendRecv">>
           /\ pc[p] = "done" =>
                log[p] = <<"AlignRowsAndResize", "Pack", "SendRecv", "Unpack">>
           /\ pc[p] = "sendrecv" =>
                \/ pc[recvRowRank(p)] = "call"
                \/ \E m \in net : m.dst = p /\ m.src = recvRowRank(p)
    /\ \A m \in net : recvRowRank(m.dst) = m.src /\ pc[m.dst] \in {"call", "sendrecv"}
    /\ (\A p \in Procs : Returned(p)) => net = {}
    /\ ((\A p \in Procs : pc[p] # "call") /\ (\E p \in Procs : pc[p] = "sendrecv"))
         => ENABLED (\E p \in Procs : ColFilter_SendRecv(p))

CF_ExchangeMatched_Witness ==
  /\ op = "ColFilter" /\ RowStride >= 3
  /\ \A p \in Procs : pc[p] = "done" /\ Unaligned(p) /\ Count(log[p], "SendRecv") = 1
  /\ \E p \in Procs : sendRowRank(p) # recvRowRank(p)

(***************************************************************************)
(* C4, as claimed: in the misaligned path the rank a process sends to and  *)
(* the rank it receives from are one and the same rank.                    *)
(***************************************************************************)
CF_SamePartner ==
  op = "ColFilter" =>
    \A p \in Procs :
      (pc[p] = "sendrecv" /\ Unaligned(p)) => sendRowRank(p) = recvRowRank(p)

(***************************************************************************)
(* C4, amended: in the misaligned path rowDiff determines exactly one send *)
(* partner, (rank + rowDiff) mod rowStride, and exactly one receive        *)
(* partner, (rank - rowDiff) mod rowStride, both ranks of the row          *)
(* communicator other than the process itself; the two are the same rank   *)
(* exactly when 2*rowDiff is a multiple of rowStride.                      *)
(***************************************************************************)
CF_PartnersDetermined ==
  op = "ColFilter" =>
    \A p \in Procs :
      (pc[p] = "sendrecv" /\ Unaligned(p)) =>
        LET diff == B_rowAlign[p] - A_rowAlign IN
        /\ sendRowRank(p) \in Procs \ {p}
        /\ recvRowRank(p) \in Procs \ {p}
        /\ (sendRowRank(p) - p - diff) % RowStride = 0
        /\ (recvRowRank(p) - p + diff) % RowStride = 0
        /\ \A m \in net : m.src = p => m.dst = sendRowRank(p)
        /\ (sendRowRank(p) = recvRowRank(p)) <=> ((2 * diff) % RowStride = 0)

CF_PartnersDetermined_Witness ==
  /\ op = "ColFilter" /\ RowStride = 3
  /\ \E p \in Procs :
       /\ pc[p] = "sendrecv" /\ Unaligned(p)
       /\ sendRowRank(p) # recvRowRank(p)
       /\ \E m \in net : m.src = p

(***************************************************************************)
(* C5: when B's row communicator is trivial (RowStride = 1, as for every   *)
(* [VR,STAR] destination) ColFilter communicates nothing: no process ever  *)
(* enters SendRecv, no message is in flight, and a process that has        *)
(* returned filled B by the local strided copy alone.                      *)
(***************************************************************************)
CF_TrivialRowCommLocal ==
  (op = "ColFilter" /\ (dist = "VR_STAR" \/ RowStride = 1)) =>
    /\ net = {}
    /\ \A p \in Procs :
         /\ pc[p] # "sendrecv"
         /\ Count(log[p], "SendRecv") = 0
         /\ pc[p] = "done" => log[p] = <<"AlignRowsAndResize", "InterleaveMatrix">>

CF_TrivialRowCommLocal_Witness ==
  /\ op = "ColFilter" /\ dist = "VR_STAR" /\ gridW >= 2 /\ gridH >= 2
  /\ height >= 2 /\ width >= 2 /\ B_rowConstrained
  /\ \A p \in Procs : pc[p] = "done" /\ B_Get(p, colRank, 1) = AVal(colRank, 1)

(***************************************************************************)
(* C2: Scatter from [CIRC,CIRC] into a destination with CrossSize() = 1    *)
(* and RedundantSize() = 1 delivers to every process of B's DistComm the   *)
(* entries its ownership formula predicts: a process that has returned     *)
(* holds the root's A(i,j) at every global (i,j) it owns under B's         *)
(* (ColAlign, ColStride, RowAlign, RowStride), and no process fails.       *)
(***************************************************************************)
SC_Delivered ==
  (op = "Scatter" /\ sameGrid /\ CrossSize = 1 /\ RedundantSize = 1) =>
    \A p \in Procs :
      /\ pc[p] # "error"
      /\ (InGrid(p) /\ pc[p] = "done") =>
           /\ B_height[p] = height /\ B_width[p] = width
           /\ Cardinality(DOMAIN B_buf[p]) =
                Max(Cardinality(OwnedRows(p, height)), 1) * Cardinality(OwnedCols(p, width))
           /\ \A i \in OwnedRows(p, height), j \in OwnedCols(p, width) :
                B_Get(p, i, j) = AVal(i, j)

SC_Delivered_Witness ==
  /\ op = "Scatter" /\ dist = "MC_MR" /\ gridH = 3 /\ gridW = 2
  /\ height = 6 /\ width = 6 /\ B_colAlign = 2 /\ B_rowAlign0 = 1 /\ A_root = 4
  /\ \A p \in Procs : pc[p] = "done"
  /\ \A p \in Procs : InGrid(p) => (Count(log[p], "Scatter") = 1
                                     /\ Cardinality(DOMAIN B_buf[p]) = 6)

(***************************************************************************)
(* C6: a process for which the root of A has no rank in B's DistComm       *)
(* (mpi::Translate yields UNDEFINED) returns from Scatter without an       *)
(* error, having packed, scattered and unpacked nothing, and its local     *)
(* buffer of B is what it was before the call: empty.                      *)
(***************************************************************************)
SC_NonParticipantReturns ==
  (op = "Scatter" /\ sameGrid /\ CrossSize = 1 /\ RedundantSize = 1) =>
    \A p \in Procs :
      (Translate(p, A_root) = UNDEFINED /\ pc[p] # "call") =>
        /\ pc[p] = "done"
        /\ err[p] = ""
        /\ log[p] = <<"Resize", "Translate">>
        /\ B_buf[p] = PrevBuffer(p)
        /\ DOMAIN B_buf[p] = {}
        /\ UNDEFINED \notin DOMAIN posted

SC_NonParticipantReturns_Witness ==
  /\ op = "Scatter" /\ sameGrid /\ dist = "VR_STAR" /\ gridH = 2 /\ gridW = 2
  /\ \E p \in Procs : Translate(p, A_root) = UNDEFINED /\ pc[p] = "done"
  /\ \E p \in Procs : InGrid(p) /\ pc[p] = "scatter"
  /\ \E p \in Procs : InGrid(p) /\ pc[p] = "done" /\ Count(log[p], "Unpack") = 1

(***************************************************************************)
(* C7: when the destination has redundant copies (CrossSize() # 1 or       *)
(* RedundantSize() # 1) Scatter defers entirely to GeneralPurpose and      *)
(* returns: no process translates a rank, packs or enters mpi::Scatter.    *)
(***************************************************************************)
SC_RedundantDefers ==
  (op = "Scatter" /\ sameGrid /\ (CrossSize # 1 \/ RedundantSize # 1)) =>
    /\ posted = <<>>
    /\ \A p \in Procs :
         pc[p] # "call" =>
           /\ pc[p] = "done"
           /\ log[p] = <<"Resize", "GeneralPurpose">>

SC_RedundantDefers_Witness ==
  /\ op = "Scatter" /\ sameGrid /\ dist = "MC_STAR" /\ gridH = 2 /\ gridW = 2
  /\ RedundantSize = 2 /\ height = 2 /\ width >= 2
  /\ \A p \in Procs : pc[p] = "done" /\ log[p] = <<"Resize", "GeneralPurpose">>

(***************************************************************************)
(* C8: Scatter from [CIRC,CIRC] into [STAR,STAR] issues no scatter         *)
(* collective: B is resized to A's shape, the root copies its local matrix *)
(* into B, a broadcast rooted at A.Root() follows, and afterwards every    *)
(* participating process's local B equals the root's local A entry for     *)
(* entry.                                                                  *)
(***************************************************************************)
SS_BroadcastsRoot ==
  (op = "ScatterStar" /\ sameGrid) =>
    /\ \A r \in DOMAIN posted : posted[r].root = A_root
    /\ \A p \in Procs :
         /\ Count(log[p], "Scatter") = 0
         /\ (InGrid(p) /\ pc[p] \in {"bcast", "done"}) =>
              /\ B_height[p] = height /\ B_width[p] = width
              /\ log[p] = IF p = A_root THEN <<"Resize", "Copy", "Broadcast">>
                          ELSE <<"Resize", "Broadcast">>
         /\ (InGrid(p) /\ pc[p] = "done") =>
              /\ DOMAIN B_buf[p] = 0..(Max(height, 1) * width - 1)
              /\ \A i \in 0..(height - 1), j \in 0..(width - 1) :
                   B_buf[p][i + j * Max(height, 1)] = AVal(i, j)

SS_BroadcastsRoot_Witness ==
  /\ op = "ScatterStar" /\ sameGrid /\ gridH = 2 /\ gridW = 2 /\ A_root = 3
  /\ height = 2 /\ width >= 2
  /\ \A p \in Procs : pc[p] = "done"
  /\ \A p \in Procs : InGrid(p) => B_buf[p][3] = AVal(1, 1)

(***************************************************************************)
(* B on process p is as it was before the call.                            *)
(***************************************************************************)
B_Untouched(p) ==
  /\ B_rowAlign[p] = B_rowAlign0
  /\ B_height[p] = 1 /\ B_width[p] = 1
  /\ B_buf[p] = PrevBuffer(p)

(***************************************************************************)
(* C9: a grid mismatch between source and destination is a fatal error in  *)
(* ColFilter and in both Scatter overloads, in debug and in release        *)
(* builds: every process that has entered the call has raised an error     *)
(* ("Grids did not match", unless the debug-only distribution check of     *)
(* ColFilter fired first), B's shape, alignment and local buffer are       *)
(* unchanged on it, and nothing was communicated.                          *)
(***************************************************************************)
Copy_GridMismatchFatal ==
  ~sameGrid =>
    /\ net = {} /\ posted = <<>>
    /\ \A p \in Procs :
         pc[p] # "call" =>
           /\ pc[p] = "error"
           /\ err[p] = IF op = "ColFilter" /\ ~release /\ ~compatDist
                       THEN "Incompatible distributions"
                       ELSE "Grids did not match"
           /\ log[p] = <<>>
           /\ B_Untouched(p)

Copy_GridMismatchFatal_Witness ==
  /\ ~sameGrid /\ release /\ op = "ColFilter" /\ RowStride = 3
  /\ ~B_rowConstrained /\ B_rowAlign0 # A_rowAlign
  /\ height = 2 /\ width = 3
  /\ \A p \in Procs : pc[p] = "error" /\ err[p] = "Grids did not match"
  /\ \E p \in Procs : B_buf[p] = Buffer(1, PrevVal(0, 0))

(***************************************************************************)
(* C10: ColFilter called with incompatible distributions raises            *)
(* "Incompatible distributions" in debug builds, before B is realigned or  *)
(* resized; in release builds the check does not exist: no process raises  *)
(* that error and, on matching grids, the call goes on to realign and      *)
(* resize B.                                                               *)
(***************************************************************************)
CF_DistCheckDebugOnly ==
  (op = "ColFilter" /\ ~compatDist) =>
    \A p \in Procs :
      pc[p] # "call" =>
        IF ~release
        THEN /\ pc[p] = "error"
             /\ err[p] = "Incompatible distributions"
             /\ log[p] = <<>>
             /\ B_Untouched(p)
             /\ net = {}
        ELSE /\ err[p] # "Incompatible distributions"
             /\ sameGrid => (/\ log[p] # <<>>
                             /\ log[p][1] = "AlignRowsAndResize"
                             /\ B_height[p] = height /\ B_width[p] = width)

CF_DistCheckDebugOnly_Witness ==
  /\ op = "ColFilter" /\ ~compatDist /\ ~release /\ sameGrid /\ RowStride = 3
  /\ ~B_rowConstrained /\ B_rowAlign0 # A_rowAlign
  /\ height = 2 /\ width = 3
  /\ \A p \in Procs : pc[p] = "error" /\ err[p] = "Incompatible distributions"
  /\ \E p \in Procs : B_buf[p] = Buffer(1, PrevVal(0, 0))

(***************************************************************************)
(* qr::BusingerGolub: QR with column pivoting, on a Matrix (the sequential *)
(* driver) and on a [MC,MR] DistMatrix (the distributed driver, of which   *)
(* one process row is modelled: its process columns q = g.Col() hold the   *)
(* local vectors norms and origNorms).                                     *)
(*                                                                         *)
(* The entries of A are abstracted to what the control flow reads: per     *)
(* global column the squared norm of the whole column (A_colSq) and of its *)
(* rows col..m-1 (A_resSq).  A Householder step removes from each trailing *)
(* column the square a12Sq[j] of its entry in row col, which may be any    *)
(* part of its residual (all of it when row col is the last row).          *)
(***************************************************************************)
MaxRows == 2
\* The widest process row on which the distributed driver is run.
MaxRowStride == 2
MaxCols == 3
MaxNormSq == 1
\* The runs that are compared with each other take larger entries.
MaxPairNormSq == 2
\* svm::IPM: A is MaxPoints x MaxFeatures at most and stores up to
\* MaxEntriesA entries.
MaxPoints == 2
MaxFeatures == 2
MaxEntriesA == 2
\* Twice the tolerances tried: tol = -1, 0, 1/2.
TolValues == {0 - 2, 0, 1}
\* updateTol = Sqrt(lapack::MachineEpsilon<Real>()) = 2^-26 for doubles.
UpdateTolInv == 67108864

distributed == op \in {"DistBusingerGolub", "GridBusingerGolub"}
Runs == DOMAIN pcBG

BG_rowStride == IF distributed THEN gridW ELSE 1
BG_rowAlign == IF distributed THEN A_rowAlign ELSE 0
BG_Cols == 0..(BG_rowStride - 1)
\* A.RowShift() and A.LocalWidth() on process column q
BG_rowShift(q) == Shift(q, BG_rowAlign, BG_rowStride)
BG_nLocal(q) == Length(width, BG_rowShift(q), BG_rowStride)
GlobalCol(q, jLocal) == BG_rowShift(q) + jLocal * BG_rowStride

Swapped(f, a, b) == [f EXCEPT ![a] = f[b], ![b] = f[a]]
MaxOf(S) == IF S = {} THEN 0 ELSE CHOOSE x \in S : \A y \in S : x >= y

\* ColumnNorms: the local norms of process column q and the global maximum.
ColumnNorms(colSq, q) == [jLocal \in 0..(BG_nLocal(q) - 1) |-> colSq[GlobalCol(q, jLocal)]]
ColumnNorms_maxNorm(colSq) == MaxOf({colSq[j] : j \in DOMAIN colSq})

\* What a read past the end of a norms vector may yield: nothing that
\* matters, or more than every norm.
Overlarge == Max(MaxNormSq, MaxPairNormSq) + 1
GarbageNorms == {0, Overlarge}

\* FindPivot: std::max_element over norms[col..n-1], the first maximum.  On
\* an empty range max_element returns the end pointer, which is then
\* dereferenced: the value is whatever lies behind the vector.
FindPivot(nrm, c, garbage) ==
  LET n == Cardinality(DOMAIN nrm)
      best == CHOOSE j \in c..(n - 1) :
                \A k \in c..(n - 1) : nrm[j] > nrm[k] \/ (nrm[j] = nrm[k] /\ j <= k)
  IN  IF c < n THEN [value |-> nrm[best], index |-> best]
      ELSE [value |-> garbage, index |-> n]

\* mpi::MAXLOC: the largest value, and among equal values the smallest index.
MAXLOC(S) ==
  CHOOSE x \in S : \A y \in S : x.value > y.value \/ (x.value = y.value /\ x.index <= y.index)

localColsBefore(q, c) == Length(c, BG_rowShift(q), BG_rowStride)
localPivot(nrm, q, c, garbage) == FindPivot(nrm[q], localColsBefore(q, c), garbage[q])
\* FindColumnPivot: pivot.index = rowShift + localPivot.index*rowStride, then
\* mpi::AllReduce with MAXLOC over the row communicator.
FindColumnPivot(nrm, c, garbage) ==
  MAXLOC({[value |-> localPivot(nrm, q, c, garbage).value,
           index |-> BG_rowShift(q) + localPivot(nrm, q, c, garbage).index * BG_rowStride]
          : q \in BG_Cols})

\* The process columns whose FindPivot range is empty at step c.
EmptyRange(c) == {q \in BG_Cols : localColsBefore(q, c) >= BG_nLocal(q)}

\* const int colOwner = (col+rowAlign) % rowStride, likewise pivotColOwner
colOwner(c) == CRem(c + BG_rowAlign, BG_rowStride)
pivotColOwner(index) == CRem(index + BG_rowAlign, BG_rowStride)
\* Mutant: the local index computed from the alignment.
colLocal_ByAlign(q, c) == CDiv(c - BG_rowAlign, BG_rowStride)
\* const int colLocal = (col-rowShift) / rowStride, likewise pivotColLocal, jLocal
colLocal(q, c) == CDiv(c - BG_rowShift(q), BG_rowStride)

\* if( pivot.value <= tol*maxOrigNorm ), on squared norms.  A negative
\* tol*maxOrigNorm is below every norm; tol*0 is (minus) zero.
\* Mutant: the test made strict.
BelowTol_Strict(value, maxSq) ==
  IF tol2 >= 0 THEN 4 * value < tol2 * tol2 * maxSq ELSE FALSE
BelowTol(value, maxSq) ==
  IF tol2 >= 0 THEN 4 * value <= tol2 * tol2 * maxSq
  ELSE value = 0 /\ maxSq = 0

\* norms[pivotColLocal] = norms[colLocal]: by assignment when one process
\* column owns both, by mpi::Send / mpi::Recv otherwise.
SwapNorms(nrm, c, index) ==
  IF c = index THEN nrm
  ELSE [nrm EXCEPT ![pivotColOwner(index)][colLocal(pivotColOwner(index), index)] =
                      nrm[colOwner(c)][colLocal(colOwner(c), c)]]
\* origNorms[pivotColLocal] = origNorms[colLocal]: only in the branch where
\* one process column owns both columns.
SwapOrigNorms(orig, c, index) ==
  IF c = index \/ colOwner(c) # pivotColOwner(index) THEN orig
  ELSE [orig EXCEPT ![colOwner(c)][colLocal(colOwner(c), index)] =
                       orig[colOwner(c)][colLocal(colOwner(c), c)]]

\* gamma = max(0,(1-gamma)*(1+gamma)) with gamma = |a12(k)| / norms[j], times
\* norms[j]^2: what norms[j] *= Sqrt(gamma) leaves of the squared norm.
Downdated(nj, a) == Max(0, nj - a)
\* phi = gamma*(ratio*ratio) <= updateTol, ratio = norms[j] / origNorms[j]
Inaccurate(nj, oj, a) == oj > 0 /\ Downdated(nj, a) * UpdateTolInv <= oj

\* Sequential driver: norms[j] = blas::Nrm2( m-(col+1), A.Buffer(col+1,j), 1 )
Nrm2_Trailing(colSq, resSq, j) == resSq[j]
\* Distributed driver: ReplaceColumnNorms( A, ... ) sums over all of
\* A.LocalHeight() rows of the column and over the column communicator.
ReplaceColumnNorms(colSq, resSq, j) == colSq[j]
Recomputed(colSq, resSq, j) ==
  IF distributed THEN ReplaceColumnNorms(colSq, resSq, j)
  ELSE Nrm2_Trailing(colSq, resSq, j)

\* The norm update of one trailing column owned by process column q.
UpdatedNorm(always, nj, oj, a, colSq, resSq, j) ==
  IF nj = 0 THEN nj
  ELSE IF Inaccurate(nj, oj, a) \/ always THEN Recomputed(colSq, resSq, j)
  ELSE Downdated(nj, a)
\* Mutant: the incremental update moves the baseline along with the norm.
UpdatedOrigNorm_FollowsNorm(always, nj, oj, a, colSq, resSq, j) ==
  IF nj = 0 THEN oj
  ELSE IF Inaccurate(nj, oj, a) \/ always THEN Recomputed(colSq, resSq, j)
  ELSE Downdated(nj, a)
\* Mutant: the test norms[j] != 0 left out.
UpdatedOrigNorm_ZeroVisited(always, nj, oj, a, colSq, resSq, j) ==
  IF Inaccurate(nj, oj, a) \/ always THEN Recomputed(colSq, resSq, j) ELSE oj
UpdatedOrigNorm(always, nj, oj, a, colSq, resSq, j) ==
  IF nj = 0 THEN oj
  ELSE IF Inaccurate(nj, oj, a) \/ always THEN Recomputed(colSq, resSq, j)
  ELSE oj

\* The parts of the residuals that a Householder step at column c can move
\* into row c, one choice per trailing column.
Reflections(resSq, c) ==
  {a \in [(c + 1)..(width - 1) -> 0..MaxOf({resSq[j] : j \in DOMAIN resSq})] :
     \A j \in (c + 1)..(width - 1) :
        /\ a[j] <= resSq[j]
        /\ (height - c - 1 = 0) => a[j] = resSq[j]}

\* a12 is the view of row col right of the diagonal; a12_STAR_MR = a12 has
\* a12's row alignment.  Column kLocal of it on process column q is global
\* column j = k + col+1, k = a12RowShift + kLocal*rowStride, held at
\* jLocal = (j-rowShift) / rowStride of norms.
a12RowShift(q, c) == Shift(q, Mod(BG_rowAlign + c + 1, BG_rowStride), BG_rowStride)
a12LocalWidth(q, c) == Length(width - (c + 1), a12RowShift(q, c), BG_rowStride)
a12Col(q, c, kLocal) == a12RowShift(q, c) + kLocal * BG_rowStride + c + 1
jLocal(q, c, kLocal) == CDiv(a12Col(q, c, kLocal) - BG_rowShift(q), BG_rowStride)

\* The norm update loop of one iteration on every process column: nrm and
\* orig are the vectors after the swap, a the reflection of this step.
UpdateNorms(always, which, nrm, orig, a, colSq, resSq, c) ==
  [q \in BG_Cols |->
     [jl \in DOMAIN nrm[q] |->
        IF \E kLocal \in 0..(a12LocalWidth(q, c) - 1) : jLocal(q, c, kLocal) = jl
        THEN LET kLocal == CHOOSE k \in 0..(a12LocalWidth(q, c) - 1) : jLocal(q, c, k) = jl
                 j == a12Col(q, c, kLocal)
             IN  IF which = "norms"
                 THEN UpdatedNorm(always, nrm[q][jl], orig[q][jl], a[j], colSq, resSq, j)
                 ELSE UpdatedOrigNorm(always, nrm[q][jl], orig[q][jl], a[j], colSq, resSq, j)
        ELSE IF which = "norms" THEN nrm[q][jl] ELSE orig[q][jl]]]

\* The pivot search of run r.
PivotOf(r, garbage) ==
  IF distributed THEN FindColumnPivot(norms[r], col[r], garbage)
  ELSE FindPivot(norms[r][0], col[r], 0)

\* An iteration goes on to the swap when the pivot passes the tolerance test.
Proceeds(r, pivot) == ~BelowTol(pivot.value, maxOrigNorm[r])
\* A pivot index outside A: the swap then exchanges A.Buffer(0,nLocal).
OutOfBounds(pivot) == pivot.index >= width

\* The residuals of run r that the reflection of this iteration acts on.
SwappedResSq(r, pivot) ==
  IF Proceeds(r, pivot) /\ ~OutOfBounds(pivot)
  THEN Swapped(A_resSq[r], col[r], pivot.index) ELSE A_resSq[r]

\* One iteration of the loop of run r (alwaysRecompute = r) with the pivot
\* found and the reflection a.
Iteration(r, pivot, a) ==
  LET c == col[r]
      same == [pVec |-> pVec[r], t_height |-> t_height[r], col |-> c, pcBG |-> "loop",
               A_colSq |-> A_colSq[r], A_resSq |-> A_resSq[r],
               norms |-> norms[r], origNorms |-> origNorms[r]]
  IN  IF ~Proceeds(r, pivot)
      THEN \* p.ResizeTo( col, 1 ); t.ResizeTo( col, 1 ); break;
           [same EXCEPT !.pVec = SubSeq(pVec[r], 1, c), !.t_height = c, !.pcBG = "done"]
      ELSE IF OutOfBounds(pivot)
      THEN [same EXCEPT !.pVec = [pVec[r] EXCEPT ![c + 1] = pivot.index],
                        !.pcBG = "undefined"]
      ELSE LET colSq == Swapped(A_colSq[r], c, pivot.index)
               resSq == [j \in DOMAIN A_resSq[r] |->
                           IF j > c THEN SwappedResSq(r, pivot)[j] - a[j]
                           ELSE SwappedResSq(r, pivot)[j]]
               nrm == SwapNorms(norms[r], c, pivot.index)
               orig == SwapOrigNorms(origNorms[r], c, pivot.index)
           IN  [pVec |-> [pVec[r] EXCEPT ![c + 1] = pivot.index],
                t_height |-> t_height[r],
                col |-> c + 1,
                pcBG |-> IF c + 1 < maxSteps THEN "loop" ELSE "done",
                A_colSq |-> colSq,
                A_resSq |-> resSq,
                norms |-> UpdateNorms(r, "norms", nrm, orig, a, colSq, resSq, c),
                origNorms |-> UpdateNorms(r, "origNorms", nrm, orig, a, colSq, resSq, c)]

\* What lies behind the norms vectors of the process columns whose pivot
\* search reads past the end, in this iteration.
GarbageChoices ==
  LET c == col[CHOOSE r \in Runs : TRUE]
      reads == IF distributed THEN EmptyRange(c) ELSE {}
  IN  {[q \in BG_Cols |-> IF q \in big THEN Overlarge ELSE 0] : big \in SUBSET reads}

\* The reflections of one iteration, per run: a run that breaks or fails
\* applies none.
ReflectionsOf(r, pivot) ==
  IF Proceeds(r, pivot) /\ ~OutOfBounds(pivot)
  THEN Reflections(SwappedResSq(r, pivot), col[r])
  ELSE {[j \in (col[r] + 1)..(width - 1) |-> 0]}
ReflectionChoices(pivot) ==
  {a \in [Runs -> UNION {ReflectionsOf(r, pivot[r]) : r \in Runs}] :
     /\ \A r \in Runs : a[r] \in ReflectionsOf(r, pivot[r])
     /\ \A r1, r2 \in Runs :
          (pivot[r1].index = pivot[r2].index /\ Proceeds(r1, pivot[r1]) /\ Proceeds(r2, pivot[r2]))
            => a[r1] = a[r2]}

\* Entry of BusingerGolub up to the loop: p (and t) are resized to maxSteps,
\* origNorms and maxOrigNorm come from ColumnNorms, norms = origNorms.
BusingerGolub_Enter ==
  /\ op \in {"BusingerGolub", "DistBusingerGolub"}
  /\ \A r \in Runs : pcBG[r] = "call"
  /\ pVec' = [r \in Runs |-> [i \in 1..maxSteps |-> 0 - 1]]
  /\ t_height' = [r \in Runs |-> maxSteps]
  /\ origNorms' = [r \in Runs |-> [q \in BG_Cols |-> ColumnNorms(A_colSq[r], q)]]
  /\ norms' = origNorms'
  /\ maxOrigNorm' = [r \in Runs |-> ColumnNorms_maxNorm(A_colSq[r])]
  /\ col' = [r \in Runs |-> 0]
  /\ pcBG' = [r \in Runs |-> IF 0 < maxSteps THEN "loop" ELSE "done"]
  /\ UNCHANGED <<config, nonQR, maxSteps, tol2, A_colSq, A_resSq, pivots>>

\* One iteration of the loop, in every run that is kept: pivot search,
\* tolerance test, swap, reflection, norm update.  Runs on the same input
\* see the same memory behind their vectors and, as long as they choose the
\* same pivot, the same reflection.
BusingerGolub_Iterate ==
  /\ op \in {"BusingerGolub", "DistBusingerGolub"}
  /\ \A r \in Runs : pcBG[r] = "loop"
  /\ \A r1, r2 \in Runs :
       col[r1] = col[r2] /\ A_colSq[r1] = A_colSq[r2] /\ A_resSq[r1] = A_resSq[r2]
  /\ \E garbage \in GarbageChoices :
       \E pivot \in {[r \in Runs |-> PivotOf(r, garbage)]} :
         \E a \in ReflectionChoices(pivot) :
           \E next \in {[r \in Runs |-> Iteration(r, pivot[r], a[r])]} :
             /\ pVec' = [r \in Runs |-> next[r].pVec]
             /\ t_height' = [r \in Runs |-> next[r].t_height]
             /\ col' = [r \in Runs |-> next[r].col]
             /\ pcBG' = [r \in Runs |-> next[r].pcBG]
             /\ A_colSq' = [r \in Runs |-> next[r].A_colSq]
             /\ A_resSq' = [r \in Runs |-> next[r].A_resSq]
             /\ norms' = [r \in Runs |-> next[r].norms]
             /\ origNorms' = [r \in Runs |-> next[r].origNorms]
             /\ pivots' = [r \in Runs |-> Append(pivots[r], pivot[r])]
  /\ UNCHANGED <<config, nonQR, maxSteps, tol2, maxOrigNorm>>

\* No redistribution is in progress.
IdleCopy ==
  /\ dist = "MC_MR" /\ gridH = 1 /\ release = FALSE /\ sameGrid = TRUE
  /\ compatDist = TRUE /\ colRank = 0 /\ A_root = 0 /\ B_colAlign = 0
  /\ B_rowAlign0 = 0 /\ B_rowConstrained = FALSE
  /\ pc = <<>> /\ B_rowAlign = <<>> /\ B_height = <<>> /\ B_width = <<>>
  /\ B_buf = <<>> /\ err = <<>> /\ log = <<>> /\ net = {} /\ posted = <<>>

\* BusingerGolub( A, p, maxSteps, tol, alwaysRecompute ) is called on an
\* m x n matrix with squared column norms up to maxSq and maxSteps <=
\* min(m,n), in the runs of R.
InitBusingerGolub(R, maxSq) ==
  /\ op \in {"BusingerGolub", "DistBusingerGolub"}
  /\ gridW \in (IF distributed THEN 1..MaxRowStride ELSE {1})
  /\ A_rowAlign \in 0..(gridW - 1)
  /\ height \in 1..MaxRows
  /\ width \in 1..MaxCols
  /\ maxSteps \in 0..(IF height <= width THEN height ELSE width)
  /\ tol2 \in TolValues
  /\ IdleCopy
  /\ IdleAssign
  /\ IdleSVM
  /\ IdleGrid
  /\ \E colSq \in [0..(width - 1) -> 0..maxSq] :
       /\ A_colSq = [r \in R |-> colSq]
       /\ A_resSq = [r \in R |-> colSq]
  /\ norms = [r \in R |-> <<>>]
  /\ origNorms = [r \in R |-> <<>>]
  /\ maxOrigNorm = [r \in R |-> 0]
  /\ col = [r \in R |-> 0]
  /\ pVec = [r \in R |-> <<>>]
  /\ t_height = [r \in R |-> 0]
  /\ pivots = [r \in R |-> <<>>]
  /\ pcBG = [r \in R |-> "call"]

NextBusingerGolub ==
  \/ BusingerGolub_Enter
  \/ BusingerGolub_Iterate

\* One run, with either value of alwaysRecompute.
InitBG == \E alwaysRecompute \in BOOLEAN : InitBusingerGolub({alwaysRecompute}, MaxNormSq)
SpecBG == InitBG /\ [][NextBusingerGolub]_vars

\* The distributed driver alone, for its index arithmetic: the default
\* alwaysRecompute = false and tol = 0.
InitDistBG == InitBusingerGolub({FALSE}, MaxNormSq) /\ distributed /\ tol2 = 0
SpecDistBG == InitDistBG /\ [][NextBusingerGolub]_vars

\* The same input run with alwaysRecompute = TRUE and with FALSE.
InitBGPair == InitBusingerGolub(BOOLEAN, MaxPairNormSq)
SpecBGPair == InitBGPair /\ [][NextBusingerGolub]_vars

(***************************************************************************)
(* Rank arithmetic of ColFilter and of the distributed BusingerGolub on    *)
(* one process row.  In ColFilter only the row ranks matter: the grid has  *)
(* one process row and both checks pass.                                   *)
(***************************************************************************)
InitRanks ==
  \/ InitColFilter /\ sameGrid /\ compatDist /\ gridH = 1
  \/ InitDistBG

NextRanks ==
  \/ \E p \in Procs : ColFilter_impl(p)
  \/ \E p \in Procs : ColFilter_SendRecv(p)
  \/ BusingerGolub_Enter
  \/ BusingerGolub_Iterate

SpecRanks == InitRanks /\ [][NextRanks]_vars

(***************************************************************************)
(* C11: rank arithmetic is normalized to [0, stride).  In ColFilter, for   *)
(* every row rank and every rowDiff, positive or negative, sendRowRank and *)
(* recvRowRank lie in [0, rowStride), and so does the destination of every *)
(* message sent.  In the distributed BusingerGolub colOwner lies in        *)
(* [0, rowStride) for every column, and pivotColOwner for every pivot      *)
(* index the search returns or has returned.                               *)
(***************************************************************************)
RanksNormalized ==
  /\ op = "ColFilter" =>
       /\ \A p \in Procs :
            /\ sendRowRank(p) \in 0..(RowStride - 1)
            /\ recvRowRank(p) \in 0..(RowStride - 1)
       /\ \A m \in net : m.dst \in 0..(RowStride - 1)
  /\ distributed =>
       /\ \A c \in 0..(width - 1) : colOwner(c) \in 0..(BG_rowStride - 1)
       /\ \A r \in Runs :
            /\ \A i \in DOMAIN pivots[r] :
                 pivotColOwner(pivots[r][i].index) \in 0..(BG_rowStride - 1)
            /\ pcBG[r] = "loop" =>
                 \A garbage \in GarbageChoices :
                   pivotColOwner(PivotOf(r, garbage).index) \in 0..(BG_rowStride - 1)

\* A process whose rank minus rowDiff is negative has sent its columns and
\* received those of recvRowRank.
RanksNormalized_Witness ==
  /\ op = "ColFilter" /\ RowStride = 3
  /\ \E p \in Procs :
       /\ RowRank(p) - rowDiff(p) < 0
       /\ pc[p] = "done" /\ log[p] = <<"AlignRowsAndResize", "Pack", "SendRecv", "Unpack">>

\* The branch decisions of process p in Scatter: the steps it logged, apart
\* from the pack (made by the root only) and the unpack (after the scatter).
Decisions(p) == SelectSeq(log[p], LAMBDA x : x \notin {"StridedPack", "Unpack"})
EnteredScatter(p) == Count(log[p], "Scatter") = 1

(***************************************************************************)
(* C12: within one Scatter call all processes of B's DistComm take the     *)
(* same branch at each decision point (GeneralPurpose fallback, return on  *)
(* an undefined target, local copy when DistSize() = 1, collective         *)
(* scatter).  No process enters mpi::Scatter more than once; two members   *)
(* that have made the call have both entered it or both not, and if so     *)
(* with the same root and the same count pkgSize.  Once every process has  *)
(* made the call, either no member or every member of the DistComm has     *)
(* entered, and a process still in the collective has its root there.      *)
(***************************************************************************)
SC_SameDecisions ==
  (op = "Scatter" /\ sameGrid) =>
    /\ \A p \in Procs :
         (InGrid(p) /\ pc[p] # "call") =>
           /\ Count(log[p], "Scatter") <= 1
           /\ EnteredScatter(p) =>
                /\ DistRank(p) \in DOMAIN posted
                /\ posted[DistRank(p)].count = pkgSize
    /\ \A p, q \in Procs :
         (p < q /\ InGrid(q) /\ InDistComm(p, q) /\ pc[p] # "call" /\ pc[q] # "call") =>
           /\ Decisions(p) = Decisions(q)
           /\ EnteredScatter(p) => posted[DistRank(p)].root = posted[DistRank(q)].root
    /\ (\A p \in Procs : pc[p] # "call") =>
         /\ DOMAIN posted \in {{}, 0..(DistSize - 1)}
         /\ \A p \in Procs : pc[p] = "scatter" => target(p) \in DOMAIN posted

\* All four processes of a 2 x 2 grid have entered the collective, with a
\* process outside the grid having returned early.
SC_SameDecisions_Witness ==
  /\ op = "Scatter" /\ sameGrid /\ VRSize = 4 /\ DistSize = 4
  /\ \A p \in Procs : InGrid(p) => EnteredScatter(p)
  /\ \E p \in Procs : ~InGrid(p) /\ pc[p] = "done"
  /\ DOMAIN posted = 0..3

\* value <= tol * maxOrigNorm for norms >= 0 given by their squares: with
\* tol < 0 that is value = 0 = maxOrigNorm.
AtMostTol(r, value) ==
  \/ tol2 >= 0 /\ 4 * value <= tol2 * tol2 * maxOrigNorm[r]
  \/ tol2 < 0 /\ value = 0 /\ maxOrigNorm[r] = 0
\* The steps of run r that were completed, and the pivot that ended it.
Completed(r) == 1..col[r]
StoppedByTol(r) ==
  /\ Len(pivots[r]) = col[r] + 1
  /\ AtMostTol(r, pivots[r][col[r] + 1].value)

\* An iteration can run: the runs are at the same step of the same matrix,
\* and whatever the pivot search returns, the step has an outcome.
CanIterate ==
  /\ \A r1, r2 \in Runs :
       col[r1] = col[r2] /\ A_colSq[r1] = A_colSq[r2] /\ A_resSq[r1] = A_resSq[r2]
  /\ GarbageChoices # {}
  /\ \A garbage \in GarbageChoices :
       \E pivot \in {[r \in Runs |-> PivotOf(r, garbage)]} :
         \A r \in Runs : ReflectionsOf(r, pivot[r]) # {}

BG_StopRule ==
  \A r \in Runs :
    /\ col[r] <= maxSteps
    /\ pcBG[r] # "call" => maxOrigNorm[r] = MaxOf({A_colSq[r][j] : j \in DOMAIN A_colSq[r]})
    /\ \A i \in Completed(r) : ~AtMostTol(r, pivots[r][i].value)
    /\ pcBG[r] = "loop" =>
         /\ col[r] < maxSteps /\ Len(pivots[r]) = col[r]
         /\ CanIterate
    /\ pcBG[r] = "done" =>
         /\ Len(pVec[r]) = col[r]
         /\ t_height[r] = col[r]
         /\ \A i \in Completed(r) : pVec[r][i] = pivots[r][i].index
         /\ \/ col[r] = maxSteps /\ Len(pivots[r]) = col[r]
            \/ col[r] < maxSteps /\ StoppedByTol(r)
    /\ pcBG[r] = "undefined" =>
         /\ distributed
         /\ pivots[r][Len(pivots[r])].index >= width

\* A step of the loop completes one more column or leaves the loop.
BG_StepAdvances ==
  \A r \in Runs :
    pcBG[r] = "loop" =>
      \/ pcBG'[r] = "loop" /\ col'[r] = col[r] + 1
      \/ pcBG'[r] = "done" /\ col'[r] \in {col[r], col[r] + 1}
      \/ pcBG'[r] = "undefined" /\ col'[r] = col[r]

numStepsOverload == tol2 = 0 - 2

(***************************************************************************)
(* C14: the overloads taking numSteps without a tolerance pass tol = -1    *)
(* and thereby guarantee numSteps iterations: for every matrix A, with     *)
(* numSteps <= min(height, width), a call that returns has performed       *)
(* exactly numSteps pivot steps and p has height numSteps.                 *)
(***************************************************************************)
BG_NumStepsGuaranteed ==
  \A r \in Runs :
    (numStepsOverload /\ pcBG[r] = "done") =>
      /\ col[r] = maxSteps
      /\ Len(pVec[r]) = maxSteps
      /\ Len(pivots[r]) = maxSteps

(***************************************************************************)
(* C15: on the same input, BusingerGolub run with alwaysRecompute = true   *)
(* returns the same pivot sequence p as the incremental path               *)
(* (alwaysRecompute = false), in the sequential and in the distributed     *)
(* driver, norms being exact quantities.                                   *)
(***************************************************************************)
BG_RecomputeSamePivots ==
  (Runs = BOOLEAN /\ pcBG[TRUE] = "done" /\ pcBG[FALSE] = "done") =>
    pVec[TRUE] = pVec[FALSE]

\* The norm estimates of run r as one global vector: entry j is held by
\* process column colOwner(j) at local index colLocal.
GlobalNorms(r) == [j \in 0..(width - 1) |-> norms[r][colOwner(j)][colLocal(colOwner(j), j)]]

(***************************************************************************)
(* C16: FindColumnPivot returns, on every process, the value and global    *)
(* index of a maximal norm estimate among the global columns col..n-1,     *)
(* ties going to the smallest global index: the pivot that the sequential  *)
(* FindPivot returns on the global vector of estimates.  This for every    *)
(* grid width, row alignment, n and col < n, also when some process owns   *)
(* no column with global index >= col.                                     *)
(***************************************************************************)
FCP_IsGlobalPivot ==
  distributed =>
    \A r \in Runs :
      pcBG[r] = "loop" =>
        \A garbage \in GarbageChoices :
          FindColumnPivot(norms[r], col[r], garbage) = FindPivot(GlobalNorms(r), col[r], 0)

\* The Fortran driver: process column `rank` of c holds nLoc = elem_length(
\* n, rank, c ) local columns, and local column jLoc = 1..nLoc is global
\* column j = rank + (jLoc-1)*c + 1, counted from 1 (alignments are 0).
elem_length(n, rank, c) == Length(n, rank, c)
FortranGlobal(rank, jLoc, c) == rank + (jLoc - 1) * c + 1
FortranOwned(n, rank, c) == {FortranGlobal(rank, jLoc, c) - 1 : jLoc \in 1..elem_length(n, rank, c)}

\* Ownership by a reference point s: the indices i of 0..n-1 with
\* (i - s) mod stride = 0, the local index being (i - s) / stride.
OwnedFrom(s, n, stride) == {i \in 0..(n - 1) : Mod(i - s, stride) = 0}
LocalFrom(s, i, stride) == CDiv(i - s, stride)
\* The columns process column q holds in BusingerGolub: those it swaps as
\* colOwner or pivotColOwner.
BG_Owned(q) == {j \in 0..(width - 1) : colOwner(j) = q}

(***************************************************************************)
(* C17 as stated: a process owns global index i exactly when               *)
(* (i - colAlign) mod colStride = 0, with local index                      *)
(* (i - colAlign) / colStride, and the local indices of the code (colLocal,*)
(* pivotColLocal, jLocal; the Fortran loops) agree with that on every      *)
(* process.                                                                *)
(***************************************************************************)
OwnershipByAlign ==
  distributed =>
    \A q \in BG_Cols :
      /\ BG_Owned(q) = OwnedFrom(BG_rowAlign, width, BG_rowStride)
      /\ \A j \in BG_Owned(q) : colLocal(q, j) = LocalFrom(BG_rowAlign, j, BG_rowStride)
      /\ FortranOwned(width, q, BG_rowStride) = OwnedFrom(0, width, BG_rowStride)

(***************************************************************************)
(* C17: a process owns global index i exactly when (i - shift) mod stride  *)
(* = 0, where shift = (rank - align) mod stride is the process's own first *)
(* index, and then its local index is (i - shift) / stride.  The code      *)
(* agrees on every process column: the columns it swaps as colOwner or     *)
(* pivotColOwner are those, colLocal / pivotColLocal / jLocal are exactly  *)
(* that quotient and address an entry of the local norms, the trailing     *)
(* columns of a12 it updates are the ones it owns right of col, and the    *)
(* Fortran loops (alignment 0, shift = rank) enumerate the owned indices   *)
(* in local order.                                                         *)
(***************************************************************************)
OwnershipByShift ==
  distributed =>
    \A q \in BG_Cols :
      /\ BG_Owned(q) = OwnedFrom(BG_rowShift(q), width, BG_rowStride)
      /\ Cardinality(BG_Owned(q)) = BG_nLocal(q)
      /\ \A j \in BG_Owned(q) :
           /\ colLocal(q, j) = LocalFrom(BG_rowShift(q), j, BG_rowStride)
           /\ colLocal(q, j) \in 0..(BG_nLocal(q) - 1)
           /\ GlobalCol(q, colLocal(q, j)) = j
      /\ \A c \in 0..(width - 1) :
           /\ {a12Col(q, c, kLocal) : kLocal \in 0..(a12LocalWidth(q, c) - 1)}
                = {j \in BG_Owned(q) : j > c}
           /\ \A kLocal \in 0..(a12LocalWidth(q, c) - 1) :
                jLocal(q, c, kLocal) = LocalFrom(BG_rowShift(q), a12Col(q, c, kLocal), BG_rowStride)
      /\ FortranOwned(width, q, BG_rowStride) = OwnedFrom(q, width, BG_rowStride)
      /\ \A jLoc \in 1..elem_length(width, q, BG_rowStride) :
           LocalFrom(q, FortranGlobal(q, jLoc, BG_rowStride) - 1, BG_rowStride) = jLoc - 1
      /\ \A r \in Runs : pcBG[r] # "call" => DOMAIN norms[r][q] = 0..(BG_nLocal(q) - 1)

\* On a misaligned process row of two, a pivot owned by the other process
\* column has been swapped into place.
OwnershipByShift_Witness ==
  /\ distributed /\ BG_rowStride = 2 /\ BG_rowAlign = 1 /\ width = 3
  /\ \E r \in Runs :
       /\ col[r] >= 1 /\ pcBG[r] \in {"loop", "done"}
       /\ pivotColOwner(pivots[r][1].index) # colOwner(0)
       /\ BG_rowShift(colOwner(0)) # BG_rowAlign

\* The global entries the descriptor of B maps to process p, the local size
\* of B on p, and the entries of p's local buffer that hold a value.
OwnedEntries(p) == OwnedRows(p, height) \X OwnedCols(p, width)
LocalSize(p) == LocalHeightOf(p, height) * LocalWidthOf(p, width, B_rowAlign[p])
Written(p) == {k \in DOMAIN B_buf[p] : B_buf[p][k] # Stale}
RECURSIVE SumLocalSize(_)
SumLocalSize(S) ==
  IF S = {} THEN 0
  ELSE LET q == CHOOSE x \in S : TRUE IN LocalSize(q) + SumLocalSize(S \ {q})

(***************************************************************************)
(* C18: on every process LocalHeight x LocalWidth is the number of global  *)
(* (i,j) that B's descriptor maps to it.  For a destination without        *)
(* redundant copies the owned sets partition the m x n index set: every    *)
(* entry is owned by exactly one process and the local sizes sum to m*n.   *)
(* A process that has unpacked in Scatter has written exactly              *)
(* LocalHeight x LocalWidth entries of its local matrix.  The Fortran      *)
(* driver's elem_length gives the same counts (alignment 0).               *)
(***************************************************************************)
\* What the descriptor alone decides; Scatter does not change it.
DescriptorCounts ==
  /\ \A p \in Procs : LocalSize(p) = Cardinality(OwnedEntries(p))
  /\ (CrossSize = 1 /\ RedundantSize = 1) =>
       /\ \A i \in 0..(height - 1), j \in 0..(width - 1) :
            Cardinality({p \in Procs : <<i, j>> \in OwnedEntries(p)}) = 1
       /\ SumLocalSize(Procs) = height * width
  /\ \A row \in 0..(gridH - 1), c \in 0..(gridW - 1) :
       elem_length(height, row, gridH) * elem_length(width, c, gridW)
         = Cardinality(OwnedFrom(row, height, gridH) \X OwnedFrom(c, width, gridW))

LocalSizeCountsOwned ==
  op = "Scatter" =>
    /\ (\A p \in Procs : pc[p] = "call") => DescriptorCounts
    /\ \A p \in Procs : B_rowAlign[p] = B_rowAlign0
    /\ \A p \in Procs :
         Count(log[p], "Unpack") = 1 =>
           /\ B_LocalHeight(p) * B_LocalWidth(p) = LocalSize(p)
           /\ Cardinality(Written(p)) = LocalSize(p)

\* On a [VR,STAR] grid of 4 a 2 x 3 matrix has been scattered: a process
\* owning one row has written its 3 entries, one owning no row has written
\* none.
LocalSizeCountsOwned_Witness ==
  /\ op = "Scatter" /\ dist = "VR_STAR" /\ VRSize = 4 /\ height = 2 /\ width = 3
  /\ \A p \in Procs : pc[p] = "done"
  /\ \E p \in Procs : Count(log[p], "Unpack") = 1 /\ Cardinality(Written(p)) = 3
  /\ \E p \in Procs : Count(log[p], "Unpack") = 1 /\ LocalSize(p) = 0 /\ Written(p) = {}

(***************************************************************************)
(* DistMatrix<T,VR,STAR>::operator=.  Every process of the grid executes   *)
(* the same assignment; what is modelled is which overloads it enters,     *)
(* which temporaries it constructs and which copy:: routine it ends in.    *)
(* The destination is element-wise [VR,STAR] throughout.                   *)
(***************************************************************************)
AssignProcs == 0..(VRSize - 1)

\* The distributions the typed overloads accept.
Sources == {"MC_MR", "MC_STAR", "STAR_MR", "MD_STAR", "STAR_MD", "MR_MC", "MR_STAR", "STAR_MC", "VC_STAR", "STAR_VC", "STAR_VR", "STAR_STAR", "CIRC_CIRC"}

\* A body that calls a copy:: routine on (A, *this).
Direct(routine) == [temps |-> <<>>, assigned |-> "", protocol |-> routine]

\* A body that constructs the temporaries in order and ends with
\* `*this = <the last temporary>`.
Through(temporaries) == [temps |-> temporaries, assigned |-> temporaries[Len(temporaries)], protocol |-> ""]

\* Mutant: the [STAR,VR] overload assigns its first temporary, A_MC_MR.
operatorAssign_FromMCMR(src) ==
  CASE src = "MC_MR" -> Through(<<"VC_STAR">>)
    [] src = "MC_STAR" -> Through(<<"VC_STAR">>)
    [] src = "STAR_MR" -> Through(<<"MC_MR", "VC_STAR">>)
    [] src = "MD_STAR" -> Direct("GeneralPurpose")
    [] src = "STAR_MD" -> Direct("GeneralPurpose")
    [] src = "MR_MC" -> Direct("ColAllToAllDemote")
    [] src = "MR_STAR" -> Direct("PartialColFilter")
    [] src = "STAR_MC" -> Through(<<"MR_MC">>)
    [] src = "VC_STAR" -> Direct("ColwiseVectorExchange")
    [] src = "STAR_VC" -> Through(<<"MR_MC">>)
    [] src = "STAR_VR" -> [temps |-> <<"MC_MR">>, assigned |-> "MC_MR", protocol |-> ""]
    [] src = "STAR_STAR" -> Direct("ColFilter")
    [] src = "CIRC_CIRC" -> Direct("Scatter")

\* The body of operator=( const DistMatrix<T,src>& A ).
operatorAssign(src) ==
  CASE src = "MC_MR" -> Through(<<"VC_STAR">>)
    [] src = "MC_STAR" -> Through(<<"VC_STAR">>)
    [] src = "STAR_MR" -> Through(<<"MC_MR", "VC_STAR">>)
    [] src = "MD_STAR" -> Direct("GeneralPurpose")
    [] src = "STAR_MD" -> Direct("GeneralPurpose")
    [] src = "MR_MC" -> Direct("ColAllToAllDemote")
    [] src = "MR_STAR" -> Direct("PartialColFilter")
    [] src = "STAR_MC" -> Through(<<"MR_MC">>)
    [] src = "VC_STAR" -> Direct("ColwiseVectorExchange")
    [] src = "STAR_VC" -> Through(<<"MR_MC">>)
    [] src = "STAR_VR" -> Through(<<"MC_MR", "VC_STAR">>)
    [] src = "STAR_STAR" -> Direct("ColFilter")
    [] src = "CIRC_CIRC" -> Direct("Scatter")

\* operator=( const ElementalMatrix<T>& A ): the GUARD that matches
\* A.DistData() selects the cast, and `*this = ACast` calls the overload of
\* that distribution.
Assign_ElementalMatrix(p) ==
  /\ op = "Assign"
  /\ overload[p] = "ElementalMatrix"
  /\ entered' = [entered EXCEPT ![p] = Append(@, "ElementalMatrix")]
  /\ overload' = [overload EXCEPT ![p] = A_dist]
  /\ UNCHANGED <<config, nonAssign, A_dist, viaElemental, temps, protocol>>

\* operator=( const DistMatrix<T,U,V>& A ) for the typed overload that is
\* due: it constructs its temporaries and either calls its copy:: routine
\* and returns, or assigns the last temporary to *this.
Assign_DistMatrix(p) ==
  /\ op = "Assign"
  /\ overload[p] \in Sources
  /\ \E body \in {operatorAssign(overload[p])} :
       /\ entered' = [entered EXCEPT ![p] = Append(@, overload[p])]
       /\ temps' = [temps EXCEPT ![p] = @ \o body.temps]
       /\ protocol' = [protocol EXCEPT ![p] = body.protocol]
       /\ overload' = [overload EXCEPT ![p] = body.assigned]
  /\ UNCHANGED <<config, nonAssign, A_dist, viaElemental>>

\* Every process assigns a matrix of one of the thirteen distributions,
\* passed with its own type or as an ElementalMatrix.
InitAssign ==
  /\ op = "Assign"
  /\ gridW \in 1..MaxProcs
  /\ A_rowAlign = 0 /\ height = 0 /\ width = 0
  /\ IdleCopy
  /\ IdleQR
  /\ IdleSVM
  /\ IdleGrid
  /\ A_dist \in Sources
  /\ viaElemental \in BOOLEAN
  /\ overload = [p \in AssignProcs |-> IF viaElemental THEN "ElementalMatrix" ELSE A_dist]
  /\ entered = [p \in AssignProcs |-> <<>>]
  /\ temps = [p \in AssignProcs |-> <<>>]
  /\ protocol = [p \in AssignProcs |-> ""]

NextAssign ==
  \/ \E p \in AssignProcs : Assign_ElementalMatrix(p)
  \/ \E p \in AssignProcs : Assign_DistMatrix(p)

SpecAssign == InitAssign /\ [][NextAssign]_vars

\* The routine the assignment from src is to end in: its own for the seven
\* direct sources, otherwise that of the last temporary.
ResolvesTo(src, last) ==
  CASE src \in {"MD_STAR", "STAR_MD"} -> "GeneralPurpose"
    [] src = "MR_MC" -> "ColAllToAllDemote"
    [] src = "MR_STAR" -> "PartialColFilter"
    [] src = "VC_STAR" -> "ColwiseVectorExchange"
    [] src = "STAR_STAR" -> "ColFilter"
    [] src = "CIRC_CIRC" -> "Scatter"
    [] OTHER -> IF last = "VC_STAR" THEN "ColwiseVectorExchange"
                ELSE IF last = "MR_MC" THEN "ColAllToAllDemote" ELSE "none"

DirectSources == {"MD_STAR", "STAR_MD", "MR_MC", "MR_STAR", "VC_STAR", "STAR_STAR", "CIRC_CIRC"}

\* The assignment of process p has returned.
Assigned(p) == overload[p] = ""

\* How often operator= was entered again after the first entry.
Reentries(p) == IF entered[p] = <<>> THEN 0 ELSE Len(entered[p]) - 1

\* Once returned, exactly one routine was called: the one of the table.
\* A direct source constructs no temporary; the others end in a [VC,STAR]
\* or [MR,MC] temporary.  Until then no routine was called.
ResolvesToOneProtocol(p) ==
  /\ Assigned(p) =>
       /\ A_dist \in DirectSources <=> temps[p] = <<>>
       /\ temps[p] # <<>> => temps[p][Len(temps[p])] \in {"VC_STAR", "MR_MC"}
       /\ protocol[p] = ResolvesTo(A_dist, IF temps[p] = <<>> THEN "" ELSE temps[p][Len(temps[p])])
  /\ ~Assigned(p) => protocol[p] = ""

\* The overload due next exists and was not entered before, so that every
\* step lengthens a repetition-free list over fourteen overloads.
NeverCyclic(p) ==
  /\ \A i, j \in DOMAIN entered[p] : entered[p][i] = entered[p][j] => i = j
  /\ ~Assigned(p) =>
       /\ overload[p] \in Sources \cup {"ElementalMatrix"}
       /\ \A i \in DOMAIN entered[p] : entered[p][i] # overload[p]

\* C19 as stated: assignment into [VR,STAR] resolves every one of the 13
\* source distributions to exactly one copy:: routine, never cyclically,
\* and operator= is re-entered at most once per assignment.
AssignReenteredAtMostOnce ==
  \A p \in AssignProcs :
    /\ ResolvesToOneProtocol(p)
    /\ NeverCyclic(p)
    /\ Reentries(p) <= 1

\* C19, amended: as above, but operator= is re-entered at most once only
\* when A is passed with its own type; passed as an ElementalMatrix, the
\* generic overload is entered first and re-entered at most twice.
AssignDispatchTerminates ==
  \A p \in AssignProcs :
    /\ ResolvesToOneProtocol(p)
    /\ NeverCyclic(p)
    /\ Reentries(p) <= (IF viaElemental THEN 2 ELSE 1)

\* An assignment from [STAR,MR] passed as an ElementalMatrix has returned
\* on every process after three entries and two temporaries.
AssignDispatchTerminates_Witness ==
  /\ op = "Assign" /\ viaElemental /\ A_dist = "STAR_MR"
  /\ \A p \in AssignProcs :
       /\ Assigned(p)
       /\ entered[p] = <<"ElementalMatrix", "STAR_MR", "VC_STAR">>
       /\ temps[p] = <<"MC_MR", "VC_STAR">>
       /\ protocol[p] = "ColwiseVectorExchange"

(***************************************************************************)
(* svm::IPM on a SparseMatrix A (m points, n features): the construction   *)
(* of Q and G through Reserve, QueueUpdate and ProcessQueues.  An entry is *)
(* <<row, col, value>>.                                                    *)
(***************************************************************************)
IPM_m == height
IPM_n == width

\* A.NumEntries(), A.Row(e), A.Col(e), A.Value(e) for e counted from 0.
numEntriesA == Len(A_entries)
A_Row(k) == A_entries[k + 1][1]
A_Col(k) == A_entries[k + 1][2]
A_Value(k) == A_entries[k + 1][3]

\* QueueUpdate( row, col, value ) appends to the queue.
QueueUpdate(queue, row, column, value) == Append(queue, <<row, column, value>>)

\* The (row, col) positions of a list of entries.
Positions(s) == {<<s[k][1], s[k][2]>> : k \in DOMAIN s}

\* The order of the committed entries: by row, then by column.
Before(x, y) == x[1] < y[1] \/ (x[1] = y[1] /\ x[2] < y[2])

\* The sum of the values a list of entries holds at one position.
RECURSIVE SumAt(_, _)
SumAt(s, pos) ==
  IF s = <<>> THEN 0
  ELSE (IF <<s[1][1], s[1][2]>> = pos THEN s[1][3] ELSE 0) + SumAt(Tail(s), pos)

\* ProcessQueues(): the queued updates are merged into the entries, sorted,
\* and the updates of one position are combined by adding their values.
ProcessQueues(entries, queue) ==
  LET all == entries \o queue
      P == Positions(all)
      Rank(pos) == Cardinality({x \in P : Before(x, pos)}) + 1
  IN [k \in 1..Cardinality(P) |->
        LET pos == CHOOSE x \in P : Rank(x) = k
        IN <<pos[1], pos[2], SumAt(all, pos)>>]

\* Mutant: the -I blocks start at column n.
IPM_zCol_FromBeta(k) == k + IPM_n

\* Column e+n+1 of z_e in G.
IPM_zCol(k) == k + IPM_n + 1

\* The updates queued by `for e<numEntriesA: G.QueueUpdate( A.Row(e),
\* A.Col(e), -d.Get(A.Row(e),0)*A.Value(e) )`.
RECURSIVE G_UpdatesOfA(_, _)
G_UpdatesOfA(queue, k) ==
  IF k >= numEntriesA THEN queue
  ELSE G_UpdatesOfA(QueueUpdate(queue, A_Row(k), A_Col(k), (0 - d[A_Row(k)]) * A_Value(k)), k + 1)

\* `for e<m: G.QueueUpdate( e, n, -d.Get(e,0) )`.
RECURSIVE G_UpdatesOfd(_, _)
G_UpdatesOfd(queue, k) ==
  IF k >= IPM_m THEN queue
  ELSE G_UpdatesOfd(QueueUpdate(queue, k, IPM_n, 0 - d[k]), k + 1)

\* `for e<m: { G.QueueUpdate( e, e+n+1, -1 ); G.QueueUpdate( e+m, e+n+1, -1 ); }`.
RECURSIVE G_UpdatesOfI(_, _)
G_UpdatesOfI(queue, k) ==
  IF k >= IPM_m THEN queue
  ELSE G_UpdatesOfI(QueueUpdate(QueueUpdate(queue, k, IPM_zCol(k), 0 - 1), k + IPM_m, IPM_zCol(k), 0 - 1), k + 1)

\* `for e<n: Q.QueueUpdate( e, e, 1 )`.
RECURSIVE Q_Updates(_, _)
Q_Updates(queue, k) ==
  IF k >= IPM_n THEN queue
  ELSE Q_Updates(QueueUpdate(queue, k, k, 1), k + 1)

\* The shapes of Zeros( Q, n+m+1, n+m+1 ) and Zeros( G, 2*m, n+m+1 ).
Q_Height == IPM_n + IPM_m + 1
G_Height == 2 * IPM_m
G_Width == IPM_n + IPM_m + 1

\* A sparse matrix of the given shape and entries.
Sparse(h, w, entries) == [height |-> h, width |-> w, entries |-> entries]

\* IR(a,b) is the range a..b-1; wInd, betaInd and zInd are the columns of
\* w, beta and z.
IR(a, b) == <<a, b>>
wInd == IR(0, IPM_n)
betaInd == IR(IPM_n, IPM_n + 1)
zInd == IR(IPM_n + 1, IPM_n + IPM_m + 1)

\* Position x lies in the view X( I, J ).
InView(x, I, J) == x[1] >= I[1] /\ x[1] < I[2] /\ x[2] >= J[1] /\ x[2] < J[2]

\* The positions of an h x w matrix.
Indices(h, w) == (0..(h - 1)) \X (0..(w - 1))

\* The positions of every matrix the sequential overloads build.
Everywhere == Indices(Max(Q_Height, G_Height), Q_Height)

\* A dense matrix maps its positions to their values.  S holds the
\* positions stored by the caller (all of them for a Matrix, the local ones
\* for a DistMatrix) and Value(x) is the value at position x.
Dense(h, w, S, Value(_)) ==
  [height |-> h, width |-> w, at |-> [x \in S \cap Indices(h, w) |-> Value(x)]]

\* Zeros( X, h, w ).
Zero(x) == 0
Zeros(h, w, S) == Dense(h, w, S, Zero)

\* The operations on a view X(I,J) act entry by entry: each is given as
\* the value it leaves at position x of X, which held v.
\* Fill( X(I,J), alpha ).
Fill(v, x, I, J, alpha) == IF InView(x, I, J) THEN alpha ELSE v

\* FillDiagonal( X(I,J), alpha ).
FillDiagonal(v, x, I, J, alpha) ==
  IF InView(x, I, J) /\ x[1] - I[1] = x[2] - J[1] THEN alpha ELSE v

\* Scale( alpha, X(I,J) ).
Scale(alpha, v, x, I, J) == IF InView(x, I, J) THEN alpha * v ELSE v

\* A.Get(i,j) of the dense A and d.Get(i,0).
A_Get(i, j) == SumAt(A_entries, <<i, j>>)
d_Get(i) == d[i]

\* X(I,J) = A.
AssignA(v, x, I, J) == IF InView(x, I, J) THEN A_Get(x[1] - I[1], x[2] - J[1]) ELSE v

\* X(I,J) = d.
Assignd(v, x, I, J) == IF InView(x, I, J) THEN d_Get(x[1] - I[1]) ELSE v

\* DiagonalScale( LEFT, NORMAL, d, X(I,J) ): row i of the view is
\* multiplied by d(i).
DiagonalScale(v, x, I, J) == IF InView(x, I, J) THEN d_Get(x[1] - I[1]) * v ELSE v

\* Q := | I 0 0; 0 0 0; 0 0 0 | of the dense overloads: Zeros, then
\* FillDiagonal( Qww, 1 ).
Dense_Q(S) ==
  LET Qww(x) == FillDiagonal(0, x, wInd, wInd, 1)
  IN Dense(Q_Height, Q_Height, S, Qww)

\* c := [0;0;lambda]: Zeros, then Fill( cz, lambda ).
Dense_c(S) ==
  LET cz(x) == Fill(0, x, zInd, IR(0, 1), lambda)
  IN Dense(Q_Height, 1, S, cz)

\* G := | -diag(d) A, -d, -I; 0, 0, -I |: Zeros, then `G0w = A;
\* Scale( -1, G0w ); DiagonalScale( LEFT, NORMAL, d, G0w ); G0beta = d;
\* Scale( -1, G0beta ); FillDiagonal( G0z, -1 ); FillDiagonal( G1z, -1 )`.
Dense_G(S) ==
  LET G0w(x) == DiagonalScale(Scale(0 - 1, AssignA(0, x, IR(0, IPM_m), wInd), x, IR(0, IPM_m), wInd), x, IR(0, IPM_m), wInd)
      G0beta(x) == Scale(0 - 1, Assignd(G0w(x), x, IR(0, IPM_m), betaInd), x, IR(0, IPM_m), betaInd)
      G0z(x) == FillDiagonal(G0beta(x), x, IR(0, IPM_m), zInd, 0 - 1)
      G1z(x) == FillDiagonal(G0z(x), x, IR(IPM_m, 2 * IPM_m), zInd, 0 - 1)
  IN Dense(G_Height, G_Width, S, G1z)

\* h := [-ones(m,1); zeros(m,1)]: Zeros, then Fill( h0, -1 ).
Dense_h(S) ==
  LET h0(x) == Fill(0, x, IR(0, IPM_m), IR(0, 1), 0 - 1)
  IN Dense(G_Height, 1, S, h0)

\* Q := | I 0 0; 0 0 0; 0 0 0 |: Zeros, Reserve( n ), the n updates.
IPM_QueueQ ==
  /\ op = "IPM" /\ pcIPM = "Q"
  /\ Q_entries' = <<>>
  /\ Q_capacity' = IPM_n
  /\ Q_queue' = Q_Updates(<<>>, 0)
  /\ pcIPM' = "Q.ProcessQueues"
  /\ UNCHANGED <<config, nonSVM, lambda, ipmAt, qp, A_entries, d, G_queue, G_entries, G_capacity>>

\* Q.ProcessQueues().
IPM_ProcessQueuesQ ==
  /\ op = "IPM" /\ pcIPM = "Q.ProcessQueues"
  /\ Q_entries' = ProcessQueues(Q_entries, Q_queue)
  /\ Q_queue' = <<>>
  /\ pcIPM' = "G"
  /\ UNCHANGED <<config, nonSVM, lambda, ipmAt, qp, A_entries, d, Q_capacity, G_queue, G_entries, G_capacity>>

\* Zeros( G, 2*m, n+m+1 ); G.Reserve( numEntriesA+3*m ).
IPM_ReserveG ==
  /\ op = "IPM" /\ pcIPM = "G"
  /\ G_entries' = <<>>
  /\ G_queue' = <<>>
  /\ G_capacity' = numEntriesA + 3 * IPM_m
  /\ pcIPM' = "G.A"
  /\ UNCHANGED <<config, nonSVM, lambda, ipmAt, qp, A_entries, d, Q_queue, Q_entries, Q_capacity>>

\* The three loops that queue the updates of G.
IPM_QueueA ==
  /\ op = "IPM" /\ pcIPM = "G.A"
  /\ G_queue' = G_UpdatesOfA(G_queue, 0)
  /\ pcIPM' = "G.d"
  /\ UNCHANGED <<config, nonSVM, lambda, ipmAt, qp, A_entries, d, Q_queue, Q_entries, Q_capacity, G_entries, G_capacity>>

IPM_QueueLabels ==
  /\ op = "IPM" /\ pcIPM = "G.d"
  /\ G_queue' = G_UpdatesOfd(G_queue, 0)
  /\ pcIPM' = "G.I"
  /\ UNCHANGED <<config, nonSVM, lambda, ipmAt, qp, A_entries, d, Q_queue, Q_entries, Q_capacity, G_entries, G_capacity>>

IPM_QueueI ==
  /\ op = "IPM" /\ pcIPM = "G.I"
  /\ G_queue' = G_UpdatesOfI(G_queue, 0)
  /\ pcIPM' = "G.ProcessQueues"
  /\ UNCHANGED <<config, nonSVM, lambda, ipmAt, qp, A_entries, d, Q_queue, Q_entries, Q_capacity, G_entries, G_capacity>>

\* G.ProcessQueues(), the assembly of h, and the call
\* QP( Q, AHat, G, b, c, h, ... ); c, b and h are dense.
IPM_ProcessQueuesG ==
  /\ op = "IPM" /\ pcIPM = "G.ProcessQueues"
  /\ \E G \in {ProcessQueues(G_entries, G_queue)} :
       /\ G_entries' = G
       /\ qp' = [Q |-> Sparse(Q_Height, Q_Height, Q_entries),
                 AHat |-> Sparse(0, G_Width, <<>>),
                 G |-> Sparse(G_Height, G_Width, G),
                 b |-> Zeros(0, 1, Everywhere),
                 c |-> Dense_c(Everywhere),
                 h |-> Dense_h(Everywhere)]
  /\ G_queue' = <<>>
  /\ pcIPM' = "done"
  /\ UNCHANGED <<config, nonSVM, lambda, ipmAt, A_entries, d, Q_queue, Q_entries, Q_capacity, G_capacity>>

\* IPM( A, d, lambda, x, ctrl ) is called with an m x n sparse A that stores
\* its entries in any order, possibly one position more than once, and
\* labels d of -1 or 1.
InitIPM ==
  /\ op = "IPM"
  /\ gridW = 1 /\ A_rowAlign = 0
  /\ height \in 0..MaxPoints
  /\ width \in 0..MaxFeatures
  /\ IdleCopy
  /\ IdleQR
  /\ IdleAssign
  /\ IdleGrid
  /\ \E len \in 0..MaxEntriesA :
       A_entries \in [1..len -> (0..(height - 1)) \X (0..(width - 1)) \X {1}]
  /\ d \in [0..(height - 1) -> {0 - 1, 1}]
  /\ Q_queue = <<>> /\ Q_entries = <<>> /\ Q_capacity = 0
  /\ G_queue = <<>> /\ G_entries = <<>> /\ G_capacity = 0
  /\ pcIPM = "Q"
  /\ lambda = 1 /\ ipmAt = <<>> /\ qp = <<>>

NextIPM ==
  \/ IPM_QueueQ
  \/ IPM_ProcessQueuesQ
  \/ IPM_ReserveG
  \/ IPM_QueueA
  \/ IPM_QueueLabels
  \/ IPM_QueueI
  \/ IPM_ProcessQueuesG

SpecIPM == InitIPM /\ [][NextIPM]_vars

\* No two entries of the list sit at the same (row, col).
OnePerPosition(s) == \A i, j \in DOMAIN s : (s[i][1] = s[j][1] /\ s[i][2] = s[j][2]) => i = j

\* The number of entries of the list in the columns of C.
InColumns(s, C) == Cardinality({k \in DOMAIN s : s[k][2] \in C})

\* C20: after ProcessQueues a sparse matrix holds at most one entry per
\* (row,col): Q holds its n diagonal entries, as many as reserved, and G one
\* entry per position, inside its 2m x (n+m+1) shape.  When A stores no
\* position twice, the updates queued for G (one per entry of A in the
\* columns below n, one per row in column n, two per e in column e+n+1, in
\* rows e and e+m) never target a position twice, and the committed G
\* holds exactly NumEntries(A) + 3m entries, the reserved capacity.
G_OneEntryPerPosition ==
  op = "IPM" =>
    /\ pcIPM \notin {"Q", "Q.ProcessQueues"} =>
         /\ OnePerPosition(Q_entries) /\ Q_queue = <<>>
         /\ Len(Q_entries) = IPM_n /\ Len(Q_entries) = Q_capacity
    /\ pcIPM = "done" =>
         /\ OnePerPosition(G_entries) /\ G_queue = <<>>
         /\ \A k \in DOMAIN G_entries :
              /\ G_entries[k][1] \in 0..(2 * IPM_m - 1)
              /\ G_entries[k][2] \in 0..(IPM_n + IPM_m)
    /\ OnePerPosition(A_entries) =>
         /\ OnePerPosition(G_queue)
         /\ pcIPM = "G.ProcessQueues" =>
              /\ InColumns(G_queue, 0..(IPM_n - 1)) = numEntriesA
              /\ InColumns(G_queue, {IPM_n}) = IPM_m
              /\ \A k \in 0..(IPM_m - 1) :
                   {G_queue[i][1] : i \in {j \in DOMAIN G_queue : G_queue[j][2] = k + IPM_n + 1}} = {k, k + IPM_m}
              /\ Len(G_queue) = numEntriesA + 3 * IPM_m
         /\ pcIPM = "done" =>
              /\ Len(G_entries) = numEntriesA + 3 * IPM_m
              /\ Len(G_entries) = G_capacity

\* G was committed for a 2 x 2 matrix A with two entries at two
\* positions: it holds eight entries.
G_OneEntryPerPosition_Witness ==
  /\ op = "IPM" /\ pcIPM = "done"
  /\ IPM_m = 2 /\ IPM_n = 2 /\ numEntriesA = 2
  /\ OnePerPosition(A_entries)
  /\ Len(G_entries) = 8 /\ G_capacity = 8
  /\ Len(Q_entries) = 2

(***************************************************************************)
(* The way into [VR,STAR] and back.  The way in is ColFilter from          *)
(* [STAR,STAR] (one process of the grid per behaviour, its VR rank being   *)
(* colRank) or Scatter from [CIRC,CIRC] (all processes).  The way back     *)
(* fetches every entry from the local matrix of its owner under the        *)
(* descriptor B has after the way in.                                      *)
(***************************************************************************)
InitRoundTrip ==
  /\ InitColFilter \/ InitScatter
  /\ dist = "VR_STAR" /\ sameGrid /\ compatDist

NextRoundTrip ==
  \/ \E p \in Procs : ColFilter_impl(p)
  \/ \E p \in Procs : Scatter(p)
  \/ \E p \in Procs : Scatter_Unpack(p)

SpecRoundTrip == InitRoundTrip /\ [][NextRoundTrip]_vars

\* The modelled processes that own (i,j) of B, and what they hold there.
Owners(i, j) == {p \in Procs : B_Participating(p) /\ OwnsRow(p, i) /\ OwnsCol(p, j)}
Held(i, j) == {B_Get(p, i, j) : p \in Owners(i, j)}

\* The VR ranks that own row i of a [VR,STAR] matrix.
RowOwners(i) == {c \in 0..(VRSTAR_ColStride - 1) : Mod(i + B_colAlign, VRSTAR_ColStride) = c}

\* Back to [CIRC,CIRC] with root A_root (copy::Gather): the root's local
\* matrix, every entry fetched from its owner.
Gather(q) ==
  IF A_Participating(q)
  THEN [k \in 0..(A_CIRC_LDim * width - 1) |->
          IF (k % A_CIRC_LDim) < height
          THEN LET v == Held(k % A_CIRC_LDim, k \div A_CIRC_LDim)
               IN  IF Cardinality(v) = 1 THEN CHOOSE x \in v : TRUE ELSE Garbage
          ELSE Stale]
  ELSE Buffer(0, Stale)

\* Back to [STAR,STAR] (copy::AllGather): the entries of X's local matrix,
\* the same on every process, that are fetched from process p.
AllGatherFrom(p) ==
  [k \in {x \in DOMAIN A_LockedBuffer(p) : (x % A_LDim) < A_LocalHeight /\ OwnsRow(p, x % A_LDim)} |->
     B_Get(p, k % A_LDim, k \div A_LDim)]

\* C21: a matrix X redistributed into [VR,STAR], by ColFilter from
\* [STAR,STAR] or by Scatter from [CIRC,CIRC], and back to its original
\* distribution and alignments is reproduced exactly.  From [CIRC,CIRC]
\* every entry has one owner and the root's local matrix after the way back
\* is entry for entry the original, the other processes holding nothing
\* before and after.  From [STAR,STAR] every row has one owning process and
\* the entries that a process contributes to the way back are the original
\* entries of X's local matrix at their positions.
RoundTrip ==
  (op \in {"ColFilter", "Scatter"} /\ dist = "VR_STAR" /\ sameGrid /\ compatDist
     /\ \A p \in Procs : pc[p] \notin {"call", "scatter"}) =>
    /\ \A p \in Procs : pc[p] = "done"
    /\ \A i \in 0..(height - 1) : Cardinality(RowOwners(i)) = 1
    /\ op = "Scatter" =>
         /\ \A i \in 0..(height - 1), j \in 0..(width - 1) : Cardinality(Owners(i, j)) = 1
         /\ \A q \in Procs : Gather(q) = A_LockedMatrix(q)
    /\ op = "ColFilter" =>
         \A p \in Procs :
           /\ B_rowAlign[p] = Mod(A_rowAlign, RowStride)
           /\ \A k \in DOMAIN AllGatherFrom(p) : AllGatherFrom(p)[k] = A_LockedBuffer(p)[k]
           /\ DOMAIN AllGatherFrom(p) =
                {i + A_LDim * j : i \in OwnedRows(p, height), j \in 0..(width - 1)}

\* A 2 x 3 matrix was scattered from root 1 onto the four processes of a
\* [VR,STAR] matrix aligned at 1, and every process has unpacked.
RoundTrip_Witness ==
  /\ op = "Scatter" /\ dist = "VR_STAR" /\ sameGrid
  /\ gridH = 2 /\ gridW = 2 /\ height = 2 /\ width = 3
  /\ A_root = 1 /\ B_colAlign = 1
  /\ \A p \in Procs : pc[p] = "done"
  /\ \A p \in Procs : InGrid(p) => Count(log[p], "Unpack") = 1
  /\ Gather(1) = A_LockedMatrix(1)

(***************************************************************************)
(* The swap of one iteration, seen from the state in which the iteration   *)
(* starts: every pivot that the search can return there, and the vectors   *)
(* the swap leaves.                                                        *)
(***************************************************************************)
\* The pivots with which run r can go on to a swap of two columns.
SwapPivots(r) ==
  {pivot \in {PivotOf(r, garbage) : garbage \in GarbageChoices} :
     Proceeds(r, pivot) /\ ~OutOfBounds(pivot) /\ col[r] # pivot.index}

\* Entry of global column j in the per-process vectors v.
AtColumn(v, j) == v[pivotColOwner(j)][colLocal(pivotColOwner(j), j)]

\* The swap is between two process columns.
CrossSwap(r, pivot) == colOwner(col[r]) # pivotColOwner(pivot.index)

NormsFollowSwap(r, pivot) ==
  AtColumn(SwapNorms(norms[r], col[r], pivot.index), pivot.index) = AtColumn(norms[r], col[r])
OrigNormsFollowSwap(r, pivot) ==
  AtColumn(SwapOrigNorms(origNorms[r], col[r], pivot.index), pivot.index) = AtColumn(origNorms[r], col[r])

\* C22: after the swap of step col (col # pivot.index) the entries of norms
\* and of origNorms at the pivot's position are the values column col had
\* before the swap, in the sequential driver and in the distributed one,
\* whether one process column owns both columns or two different ones do.
BG_SwapMovesBookkeeping ==
  \A r \in Runs :
    pcBG[r] = "loop" =>
      \A pivot \in SwapPivots(r) :
        NormsFollowSwap(r, pivot) /\ OrigNormsFollowSwap(r, pivot)

(***************************************************************************)
(* The norm update of one iteration, seen as a step: the pivot is the one  *)
(* the step records in p, the reflection is what the step takes from the   *)
(* residuals.                                                              *)
(***************************************************************************)
\* Run r completes an iteration in this step.
Iterates(r) == pcBG[r] = "loop" /\ col'[r] = col[r] + 1
StepPivot(r) == pVec'[r][col[r] + 1]
StepReflection(r, j) == Swapped(A_resSq[r], col[r], StepPivot(r))[j] - A_resSq'[r][j]

\* Trailing column j enters the update with a nonzero estimate.
Estimated(r, j) == AtColumn(SwapNorms(norms[r], col[r], StepPivot(r)), j) # 0

\* Its estimate is flagged: phi <= updateTol || alwaysRecompute.
Flagged(r, j) ==
  /\ Estimated(r, j)
  /\ \/ r
     \/ Inaccurate(AtColumn(SwapNorms(norms[r], col[r], StepPivot(r)), j),
                   AtColumn(SwapOrigNorms(origNorms[r], col[r], StepPivot(r)), j),
                   StepReflection(r, j))

\* C23: a column norm flagged inaccurate at step col is replaced by the
\* 2-norm of the trailing part of the column (rows col+1..m-1), and
\* origNorms with it, in the distributed ReplaceColumnNorms as in the
\* sequential driver.
BG_RecomputeIsTrailingNorm ==
  [][\A r \in Runs :
       Iterates(r) =>
         \A j \in (col[r] + 1)..(width - 1) :
           Flagged(r, j) =>
             /\ AtColumn(norms'[r], j) = A_resSq'[r][j]
             /\ AtColumn(origNorms'[r], j) = A_resSq'[r][j]]_vars


(***************************************************************************)
(* The distributed qr::BusingerGolub process by process, on a gridH x      *)
(* gridW grid: process p is g.Row() = MCRank(p), g.Col() = MRRank(p).      *)
(* Every process runs the loop on its own col, norms, origNorms and        *)
(* inaccurateNorms.  A collective is one step of its communicator, taken   *)
(* when all its processes have arrived, and includes what each of them     *)
(* computes locally on the way in: FindColumnPivot per grid row, the norm  *)
(* update with ReplaceColumnNorms per grid column.  The swap is made of    *)
(* the point-to-point calls of its branches.  ColumnNorms and the          *)
(* Householder step (Reflector, the redistributions of aLeftCol and a12,   *)
(* the update of A) use both communicators and are each one step of the    *)
(* whole grid; they act on the entries of A, which are abstracted as       *)
(* before (A_colSq, A_resSq of the run alwaysRecompute = FALSE).  A send   *)
(* may return before it is matched; messages between two processes are     *)
(* received in the order sent.                                             *)
(***************************************************************************)
GridProcs == 0..(VRSize - 1)
\* The processes of g.RowComm() and g.ColComm() of process p
RowComm(p) == {x \in GridProcs : MCRank(x) = MCRank(p)}
ColComm(p) == {x \in GridProcs : MRRank(x) = MRRank(p)}
\* The process of p's row communicator with rank q
RowPeer(p, q) == MCRank(p) + q * gridH
TheRun == CHOOSE r \in Runs : TRUE
Last(s) == s[Len(s)]

InitGridBG ==
  /\ op = "GridBusingerGolub"
  /\ \E g \in ScatterGrids : gridH = g[1] /\ gridW = g[2]
  /\ A_rowAlign \in {0, gridW - 1}
  /\ height \in 1..MaxRows
  /\ width \in 1..MaxCols
  /\ maxSteps = (IF height <= width THEN height ELSE width)
  /\ tol2 = 0
  /\ dist = "MC_MR" /\ release = FALSE /\ sameGrid = TRUE /\ compatDist = TRUE
  /\ colRank = 0 /\ A_root = 0 /\ B_colAlign = 0 /\ B_rowAlign0 = 0
  /\ B_rowConstrained = FALSE
  /\ B_rowAlign = <<>> /\ B_height = <<>> /\ B_width = <<>> /\ B_buf = <<>>
  /\ IdleAssign
  /\ IdleSVM
  /\ \E colSq \in [0..(width - 1) -> {0, MaxNormSq}] :
       /\ A_colSq = [r \in {FALSE} |-> colSq]
       /\ A_resSq = [r \in {FALSE} |-> colSq]
  /\ norms = [r \in {FALSE} |-> <<>>]
  /\ origNorms = [r \in {FALSE} |-> <<>>]
  /\ maxOrigNorm = [r \in {FALSE} |-> 0]
  /\ col = [r \in {FALSE} |-> 0]
  /\ pVec = [r \in {FALSE} |-> <<>>]
  /\ t_height = [r \in {FALSE} |-> 0]
  /\ pivots = [r \in {FALSE} |-> <<>>]
  /\ pcBG = [r \in {FALSE} |-> "grid"]
  /\ pc = [p \in GridProcs |-> "ColumnNorms"]
  /\ err = [p \in GridProcs |-> ""]
  /\ log = [p \in GridProcs |-> <<>>]
  /\ net = {}
  /\ posted = [p \in GridProcs |-> <<>>]
  /\ colAt = [p \in GridProcs |-> 0]
  /\ normsAt = [p \in GridProcs |-> <<>>]
  /\ origNormsAt = [p \in GridProcs |-> <<>>]
  /\ pivotAt = [p \in GridProcs |-> <<>>]
  /\ inaccurateNorms = [p \in GridProcs |-> <<>>]

\* What a step of one process leaves alone.
gridFrame == <<config, assignVars, svmVars, B_rowAlign, B_height, B_width, B_buf,
               maxSteps, tol2, norms, origNorms, col, pVec, t_height, pivots, pcBG>>

\* Entry of the driver on every process: origNorms and maxOrigNorm from
\* ColumnNorms, norms = origNorms, col = 0.
Grid_ColumnNorms ==
  /\ op = "GridBusingerGolub"
  /\ \A p \in GridProcs : pc[p] = "ColumnNorms"
  /\ origNormsAt' = [p \in GridProcs |-> ColumnNorms(A_colSq[TheRun], MRRank(p))]
  /\ normsAt' = origNormsAt'
  /\ maxOrigNorm' = [r \in Runs |-> ColumnNorms_maxNorm(A_colSq[r])]
  /\ pc' = [p \in GridProcs |-> IF 0 < maxSteps THEN "FindColumnPivot" ELSE "done"]
  /\ log' = [p \in GridProcs |-> Append(log[p], "ColumnNorms")]
  /\ UNCHANGED <<gridFrame, A_colSq, A_resSq, err, net, posted, colAt, pivotAt,
                 inaccurateNorms>>

\* What may lie behind the norms vectors of the processes of a row: each
\* process whose pivot search reads past the end sees its own memory.
GarbageOfRow(i) ==
  {[p \in RowComm(i) |-> IF p \in big THEN Overlarge ELSE 0] :
     big \in SUBSET {p \in RowComm(i) : MRRank(p) \in EmptyRange(colAt[p])}}
\* The local pivot of process p as it enters the AllReduce.
LocalPivotOf(p, garbage) ==
  LET found == FindPivot(normsAt[p], localColsBefore(MRRank(p), colAt[p]), garbage)
  IN  [value |-> found.value,
       index |-> BG_rowShift(MRRank(p)) + found.index * BG_rowStride]

\* Process p has work in the swap: col # pivot.index and p is in the grid
\* column that owns one of the two.
Swaps(p, pivot) ==
  /\ colAt[p] # pivot.index
  /\ MRRank(p) \in {colOwner(colAt[p]), pivotColOwner(pivot.index)}

\* FindColumnPivot on the processes of grid row i: the local pivots, read
\* behind the vector where a process owns no column from col on, their
\* AllReduce with MAXLOC on the row communicator, and the tolerance test.
\* A process without work in the swap is then at the Householder step.
Grid_FindColumnPivot(i) ==
  /\ op = "GridBusingerGolub"
  /\ \A p \in RowComm(i) : pc[p] = "FindColumnPivot"
  /\ \E garbage \in GarbageOfRow(i) :
       \E pivot \in {MAXLOC({LocalPivotOf(p, garbage[p]) : p \in RowComm(i)})} :
         /\ pivotAt' = [p \in GridProcs |->
                          IF p \in RowComm(i) THEN Append(pivotAt[p], pivot) ELSE pivotAt[p]]
         /\ pc' = [p \in GridProcs |->
                     IF p \notin RowComm(i) THEN pc[p]
                     ELSE IF BelowTol(pivot.value, maxOrigNorm[TheRun]) THEN "done"
                     ELSE IF Swaps(p, pivot) THEN "swap"
                     ELSE "Reflector"]
  /\ log' = [p \in GridProcs |->
               IF p \in RowComm(i) THEN Append(log[p], "AllReduce_MAXLOC") ELSE log[p]]
  /\ UNCHANGED <<gridFrame, A_colSq, A_resSq, maxOrigNorm, err, net, posted,
                 colAt, normsAt, origNormsAt, inaccurateNorms>>

\* const bool myCol = ( g.Col() == colOwner ), likewise myPivotCol
myCol(p) == MRRank(p) = colOwner(colAt[p])
myPivotCol(p) == MRRank(p) = pivotColOwner(Last(pivotAt[p]).index)
\* Mutant: both sides address the owner of column col.
SwapPeer_ColOwner(p) == RowPeer(p, colOwner(colAt[p]))
\* The process that p exchanges with in the swap.
SwapPeer(p) ==
  IF myCol(p) THEN RowPeer(p, pivotColOwner(Last(pivotAt[p]).index))
  ELSE RowPeer(p, colOwner(colAt[p]))
\* The point-to-point sends that p has issued.
Sent(p) == Cardinality({k \in 1..Len(log[p]) : log[p][k] \in {"SendRecv", "Send"}})
\* The oldest message in flight from src to dst.
Pending(src, dst) == {m \in net : m.src = src /\ m.dst = dst}
Oldest(src, dst) ==
  CHOOSE m \in Pending(src, dst) : \A m2 \in Pending(src, dst) : m.seq <= m2.seq

\* The swap of a process p that has work in it, up to its first blocking
\* call: the local exchange when p owns both columns, the start of
\* mpi::SendRecv otherwise.  A pivot column outside A is A.Buffer(0,nLocal)
\* on its owner.
Grid_Swap(p) ==
  /\ op = "GridBusingerGolub"
  /\ pc[p] = "swap"
  /\ \E c \in {colAt[p]}, index \in {Last(pivotAt[p]).index}, q \in {MRRank(p)} :
       IF myPivotCol(p) /\ index >= width
       THEN /\ pc' = [pc EXCEPT ![p] = "undefined"]
            /\ UNCHANGED <<log, net, normsAt, origNormsAt>>
       ELSE IF myCol(p) /\ myPivotCol(p)
       THEN /\ normsAt' = [normsAt EXCEPT ![p][colLocal(q, index)] = normsAt[p][colLocal(q, c)]]
            /\ origNormsAt' = [origNormsAt EXCEPT ![p][colLocal(q, index)] =
                                                     origNormsAt[p][colLocal(q, c)]]
            /\ log' = [log EXCEPT ![p] = Append(@, "MemSwap")]
            /\ pc' = [pc EXCEPT ![p] = "Reflector"]
            /\ UNCHANGED net
       ELSE /\ net' = net \cup {[src |-> p, dst |-> SwapPeer(p), seq |-> Sent(p),
                                 data |-> "column", value |-> IF myCol(p) THEN c ELSE index]}
            /\ log' = [log EXCEPT ![p] = Append(@, "SendRecv")]
            /\ pc' = [pc EXCEPT ![p] = "SendRecv"]
            /\ UNCHANGED <<normsAt, origNormsAt>>
  /\ UNCHANGED <<gridFrame, A_colSq, A_resSq, maxOrigNorm, err, posted, colAt,
                 pivotAt, inaccurateNorms>>

\* mpi::SendRecv returns on p: the column of its peer has arrived.
Grid_SendRecv(p) ==
  /\ op = "GridBusingerGolub"
  /\ pc[p] = "SendRecv"
  /\ Pending(SwapPeer(p), p) # {}
  /\ \E m \in {Oldest(SwapPeer(p), p)} :
       /\ net' = net \ {m}
       /\ IF m.data = "column"
          THEN /\ pc' = [pc EXCEPT ![p] = IF myCol(p) THEN "Send" ELSE "Recv"]
               /\ err' = err
          ELSE /\ pc' = [pc EXCEPT ![p] = "error"]
               /\ err' = [err EXCEPT ![p] = "Message truncated"]
  /\ UNCHANGED <<gridFrame, A_colSq, A_resSq, maxOrigNorm, log, posted, gridVars>>

\* mpi::Send( &norms[colLocal], 1, pivotColOwner, 0, g.RowComm() )
Grid_Send(p) ==
  /\ op = "GridBusingerGolub"
  /\ pc[p] = "Send"
  /\ net' = net \cup {[src |-> p, dst |-> SwapPeer(p), seq |-> Sent(p), data |-> "norm",
                       value |-> normsAt[p][colLocal(MRRank(p), colAt[p])]]}
  /\ log' = [log EXCEPT ![p] = Append(@, "Send")]
  /\ pc' = [pc EXCEPT ![p] = "Reflector"]
  /\ UNCHANGED <<gridFrame, A_colSq, A_resSq, maxOrigNorm, err, posted, gridVars>>

\* mpi::Recv( &norms[pivotColLocal], 1, colOwner, 0, g.RowComm() )
Grid_Recv(p) ==
  /\ op = "GridBusingerGolub"
  /\ pc[p] = "Recv"
  /\ Pending(SwapPeer(p), p) # {}
  /\ \E m \in {Oldest(SwapPeer(p), p)} :
       /\ net' = net \ {m}
       /\ normsAt' = [normsAt EXCEPT
                        ![p][colLocal(MRRank(p), Last(pivotAt[p]).index)] = m.value]
  /\ log' = [log EXCEPT ![p] = Append(@, "Recv")]
  /\ pc' = [pc EXCEPT ![p] = "Reflector"]
  /\ UNCHANGED <<gridFrame, A_colSq, A_resSq, maxOrigNorm, err, posted, colAt,
                 origNormsAt, pivotAt, inaccurateNorms>>

\* The Householder step of the whole grid at column col: the columns
\* exchanged by the swap are in place, the reflection a is applied, and
\* every process holds its copy a12_STAR_MR of row col.
Grid_Householder ==
  /\ op = "GridBusingerGolub"
  /\ \A p \in GridProcs : pc[p] = "Reflector"
  /\ \A p1, p2 \in GridProcs :
       colAt[p1] = colAt[p2] /\ Last(pivotAt[p1]) = Last(pivotAt[p2])
  /\ \E c \in {colAt[0]}, index \in {Last(pivotAt[0]).index} :
       \E swapped \in {Swapped(A_resSq[TheRun], c, index)} :
         \E a \in Reflections(swapped, c) :
           /\ A_colSq' = [r \in Runs |-> Swapped(A_colSq[r], c, index)]
           /\ A_resSq' = [r \in Runs |->
                            [j \in DOMAIN swapped |->
                               IF j > c THEN swapped[j] - a[j] ELSE swapped[j]]]
           /\ posted' = [p \in GridProcs |-> a]
  /\ pc' = [p \in GridProcs |-> "UpdateNorms"]
  /\ log' = [p \in GridProcs |-> Append(log[p], "Reflector")]
  /\ UNCHANGED <<gridFrame, maxOrigNorm, err, net, gridVars>>

\* The columns of a12_STAR_MR on p whose estimate is nonzero, in loop order,
\* and of those the ones that the loop pushes on inaccurateNorms.
TrailingLocal(p) == 0..(a12LocalWidth(MRRank(p), colAt[p]) - 1)
Pushes(p, kLocal) ==
  LET jl == jLocal(MRRank(p), colAt[p], kLocal)
      j == a12Col(MRRank(p), colAt[p], kLocal)
  IN  /\ normsAt[p][jl] # 0
      /\ Inaccurate(normsAt[p][jl], origNormsAt[p][jl], posted[p][j]) \/ TheRun
Scales(p, kLocal) ==
  /\ normsAt[p][jLocal(MRRank(p), colAt[p], kLocal)] # 0
  /\ ~Pushes(p, kLocal)
RECURSIVE PushedUpTo(_, _)
PushedUpTo(p, k) ==
  IF k = 0 THEN <<>>
  ELSE IF Pushes(p, k - 1)
  THEN Append(PushedUpTo(p, k - 1), jLocal(MRRank(p), colAt[p], k - 1))
  ELSE PushedUpTo(p, k - 1)

\* norms of process p after the loop: norms[jLocal] *= Sqrt(gamma) on the
\* columns that are not pushed.
ScaledNorms(p) ==
  [jl \in DOMAIN normsAt[p] |->
     IF \E kLocal \in TrailingLocal(p) :
          jLocal(MRRank(p), colAt[p], kLocal) = jl /\ Scales(p, kLocal)
     THEN Downdated(normsAt[p][jl], posted[p][GlobalCol(MRRank(p), jl)])
     ELSE normsAt[p][jl]]
\* Mutant: the list of the previous step is kept and appended to.
ListOf_NotEmptied(p) ==
  inaccurateNorms[p] \o PushedUpTo(p, a12LocalWidth(MRRank(p), colAt[p]))
\* inaccurateNorms of process p after the loop: emptied, then filled.
ListOf(p) == PushedUpTo(p, a12LocalWidth(MRRank(p), colAt[p]))
Listed(p, jl) == \E k \in 1..Len(ListOf(p)) : ListOf(p)[k] = jl

\* The norm update on the processes of grid column q: on each, the loop
\* over its columns of a12_STAR_MR after inaccurateNorms.resize(0), then
\* ReplaceColumnNorms, whose two AllReduce on the column communicator (MAX,
\* then SUM) take numInaccurate entries from every process, and ++col.
Grid_UpdateNorms(q) ==
  /\ op = "GridBusingerGolub"
  /\ \A p \in ColComm(q * gridH) : pc[p] = "UpdateNorms"
  /\ inaccurateNorms' = [p \in GridProcs |->
                           IF p \in ColComm(q * gridH) THEN ListOf(p) ELSE inaccurateNorms[p]]
  /\ IF \A p1, p2 \in ColComm(q * gridH) : Len(ListOf(p1)) = Len(ListOf(p2))
     THEN /\ normsAt' = [p \in GridProcs |->
               IF p \notin ColComm(q * gridH) THEN normsAt[p]
               ELSE [jl \in DOMAIN normsAt[p] |->
                       IF Listed(p, jl)
                       THEN ReplaceColumnNorms(A_colSq[TheRun], A_resSq[TheRun],
                                               GlobalCol(q, jl))
                       ELSE ScaledNorms(p)[jl]]]
          /\ origNormsAt' = [p \in GridProcs |->
               IF p \notin ColComm(q * gridH) THEN origNormsAt[p]
               ELSE [jl \in DOMAIN origNormsAt[p] |->
                       IF Listed(p, jl)
                       THEN ReplaceColumnNorms(A_colSq[TheRun], A_resSq[TheRun],
                                               GlobalCol(q, jl))
                       ELSE origNormsAt[p][jl]]]
          /\ colAt' = [p \in GridProcs |->
                         IF p \in ColComm(q * gridH) THEN colAt[p] + 1 ELSE colAt[p]]
          /\ pc' = [p \in GridProcs |->
                      IF p \notin ColComm(q * gridH) THEN pc[p]
                      ELSE IF colAt[p] + 1 < maxSteps THEN "FindColumnPivot" ELSE "done"]
          /\ log' = [p \in GridProcs |->
                       IF p \in ColComm(q * gridH)
                       THEN log[p] \o <<"ReplaceColumnNorms", "AllReduce_MAX", "AllReduce_SUM">>
                       ELSE log[p]]
          /\ err' = err
     ELSE /\ normsAt' = [p \in GridProcs |->
                           IF p \in ColComm(q * gridH) THEN ScaledNorms(p) ELSE normsAt[p]]
          /\ pc' = [p \in GridProcs |-> IF p \in ColComm(q * gridH) THEN "error" ELSE pc[p]]
          /\ err' = [p \in GridProcs |->
                       IF p \in ColComm(q * gridH) THEN "Message truncated" ELSE err[p]]
          /\ log' = [p \in GridProcs |->
                       IF p \in ColComm(q * gridH)
                       THEN Append(log[p], "ReplaceColumnNorms") ELSE log[p]]
          /\ UNCHANGED <<origNormsAt, colAt>>
  /\ UNCHANGED <<gridFrame, A_colSq, A_resSq, maxOrigNorm, net, posted, pivotAt>>

NextGridBG ==
  \/ Grid_ColumnNorms
  \/ \E i \in 0..(gridH - 1) : Grid_FindColumnPivot(i)
  \/ \E p \in GridProcs : Grid_Swap(p)
  \/ \E p \in GridProcs : Grid_SendRecv(p)
  \/ \E p \in GridProcs : Grid_Send(p)
  \/ \E p \in GridProcs : Grid_Recv(p)
  \/ Grid_Householder
  \/ \E q \in 0..(gridW - 1) : Grid_UpdateNorms(q)

SpecGridBG == InitGridBG /\ [][NextGridBG]_vars


\* The positions of a process in the loop.
GridPositions ==
  {"ColumnNorms", "FindColumnPivot", "swap", "SendRecv", "Send", "Recv", "Reflector",
   "UpdateNorms", "done", "undefined", "error"}


\* Process p is between the pivot search of a step and its ++col.
InStep(p) ==
  pc[p] \in {"swap", "SendRecv", "Send", "Recv", "Reflector", "UpdateNorms"}
AfterSwap(p) == pc[p] \in {"Reflector", "UpdateNorms"}
\* The calls of p since its last pivot search, and of those the
\* point-to-point ones.
StepCalls(p) ==
  LET at == {k \in 1..Len(log[p]) : log[p][k] = "AllReduce_MAXLOC"}
  IN  SubSeq(log[p], MaxOf(at) + 1, Len(log[p]))
IsPointToPoint(call) == call \in {"SendRecv", "Send", "Recv"}
PointToPoint(p) == SelectSeq(StepCalls(p), IsPointToPoint)
\* The grid columns that own column col and the pivot column of p's step.
OwnerOfCol(p) == Mod(colAt[p] + A_rowAlign, gridW)
OwnerOfPivot(p) == Mod(Last(pivotAt[p]).index + A_rowAlign, gridW)
\* The step of p swaps two columns of A that different grid columns own.
CrossProcess(p) ==
  /\ InStep(p)
  /\ Last(pivotAt[p]).index < width
  /\ OwnerOfCol(p) # OwnerOfPivot(p)
\* The process of p's row in grid column q.
InRowOf(p, q) == CHOOSE x \in GridProcs : MCRank(x) = MCRank(p) /\ MRRank(x) = q
SameStep(p1, p2) == InStep(p2) /\ Len(pivotAt[p1]) = Len(pivotAt[p2])

\* What p has issued of the exchange, by its side and its position.
IssuedByColOwner(p) ==
  IF pc[p] = "swap" THEN <<>>
  ELSE IF pc[p] \in {"SendRecv", "Send"} THEN <<"SendRecv">>
  ELSE <<"SendRecv", "Send">>
IssuedByPivotOwner(p) ==
  IF pc[p] = "swap" THEN <<>>
  ELSE IF pc[p] \in {"SendRecv", "Recv"} THEN <<"SendRecv">>
  ELSE <<"SendRecv", "Recv">>

TakesUnaligned(r) == ~CF_DistError /\ ~CF_GridError /\ rowDiff(r) # 0

\* C25: in the unaligned exchange of ColFilter the sizes of each matched
\* pair agree: the sendSize that process r computes (localHeight times the
\* local width of A on r) is the recvSize that its destination
\* Mod(r + rowDiff, rowStride) computes (localHeight times the local width
\* of B there), and so is the length of the message in flight between
\* them, which is never truncated.
CF_ExchangeSizesAgree ==
  op = "ColFilter" =>
    \A r \in Procs :
      /\ TakesUnaligned(r) =>
           /\ sendRowRank(r) = Mod(RowRank(r) + rowDiff(r), RowStride)
           /\ sendSize(r) = recvSize(sendRowRank(r))
           /\ localHeight(r) * Length(width, Shift(r, A_rowAlign, RowStride), RowStride)
                = localHeight(sendRowRank(r))
                    * Length(width, Shift(sendRowRank(r), B_rowAlign0, RowStride), RowStride)
      /\ \A m \in net :
           m.src = r =>
             /\ m.dst = sendRowRank(r)
             /\ Cardinality(DOMAIN m.data) = sendSize(r)
             /\ Cardinality(DOMAIN m.data) = recvSize(m.dst)
      /\ err[r] # "Message truncated"

\* Witness: an unaligned exchange of a 2 x 3 matrix on three row ranks in
\* which messages are in flight and a message has been received and unpacked.
CF_ExchangeSizesAgree_Witness ==
  /\ op = "ColFilter" /\ RowStride = 3 /\ height = 2 /\ width = 3
  /\ \A r \in Procs : TakesUnaligned(r)
  /\ \E m \in net : Cardinality(DOMAIN m.data) = 2
  /\ \E r \in Procs : pc[r] = "done" /\ log[r] = <<"AlignRowsAndResize", "Pack", "SendRecv", "Unpack">>


(***************************************************************************)
(* The distributed driver: what the processes of the grid decide.          *)
(***************************************************************************)
IsCollective(call) ==
  call \in {"ColumnNorms", "AllReduce_MAXLOC", "Reflector", "ReplaceColumnNorms",
            "AllReduce_MAX", "AllReduce_SUM"}
\* The collectives that process p has issued, in order.
Collectives(p) == SelectSeq(log[p], IsCollective)
IsPrefix(s, t) == Len(s) <= Len(t) /\ SubSeq(t, 1, Len(s)) = s
\* The decisions that follow from the pivot of step k (col = k - 1): whether
\* the loop breaks, and how the two columns are swapped.
Breaks(pivot) == BelowTol(pivot.value, maxOrigNorm[TheRun])
SwapClass(k, pivot) ==
  IF pivot.index = k - 1 THEN "none"
  ELSE IF Mod(pivot.index + A_rowAlign, gridW) = Mod(k - 1 + A_rowAlign, gridW) THEN "local"
  ELSE "cross"
StepsOf(p) == 1..Len(pivotAt[p])

\* C26: at every step of the distributed driver all processes of the grid
\* obtain the same pivot (value and index), hence take the same decision to
\* break or to continue and classify the swap alike (none, local, across
\* processes); so every process issues the same collectives in the same
\* order, for the same number of steps.
BG_SameDecisions ==
  op = "GridBusingerGolub" =>
    \A p1, p2 \in GridProcs :
      /\ \A k \in StepsOf(p1) \cap StepsOf(p2) :
           /\ pivotAt[p1][k] = pivotAt[p2][k]
           /\ Breaks(pivotAt[p1][k]) = Breaks(pivotAt[p2][k])
           /\ SwapClass(k, pivotAt[p1][k]) = SwapClass(k, pivotAt[p2][k])
      /\ IsPrefix(Collectives(p1), Collectives(p2)) \/ IsPrefix(Collectives(p2), Collectives(p1))
      /\ (pc[p1] = "done" /\ pc[p2] = "done") =>
           /\ Collectives(p1) = Collectives(p2)
           /\ colAt[p1] = colAt[p2]


(***************************************************************************)
(* The distributed driver: the norms that a step recomputes.               *)
(***************************************************************************)
\* The local columns of process p right of column col, and the entry of
\* row col in them after the reflection.
TrailingAt(p) ==
  {jl \in DOMAIN normsAt[p] : GlobalCol(MRRank(p), jl) > colAt[p]}
a12At(p, jl) == posted[p][GlobalCol(MRRank(p), jl)]
\* List s holds jl; s is strictly increasing.
Holds(s, jl) == \E k \in 1..Len(s) : s[k] = jl
Increasing(s) == \A k1, k2 \in 1..Len(s) : k1 < k2 => s[k1] < s[k2]
\* The norm update of grid column q takes place.
UpdatesNorms(q) ==
  /\ \A p \in ColComm(q * gridH) : pc[p] = "UpdateNorms"
  /\ \E p \in ColComm(q * gridH) : pc'[p] # "UpdateNorms"

\* C27: the inaccurate norms of a step are recomputed in one batch.  In the
\* norm update of a step every trailing column with a nonzero estimate is
\* either scaled in place or put on inaccurateNorms, never both, and a
\* column with a zero estimate is neither; the list holds columns of this
\* step only (it is emptied first); every process calls ReplaceColumnNorms
\* exactly once per step, also with an empty list, and the processes of one
\* grid column pass the same list, so that the two reductions on the column
\* communicator (MAX, then SUM) match in number and in length.
BG_BatchedRecompute ==
  [][\A q \in 0..(gridW - 1) :
       (op = "GridBusingerGolub" /\ UpdatesNorms(q)) =>
         \A p \in ColComm(q * gridH) :
           /\ pc'[p] # "error"
           /\ colAt'[p] = colAt[p] + 1
           /\ log'[p] = log[p] \o <<"ReplaceColumnNorms", "AllReduce_MAX", "AllReduce_SUM">>
           /\ Count(log'[p], "ReplaceColumnNorms") = colAt'[p]
           /\ Count(log'[p], "AllReduce_MAX") = colAt'[p]
           /\ Count(log'[p], "AllReduce_SUM") = colAt'[p]
           /\ \A p2 \in ColComm(q * gridH) : inaccurateNorms'[p2] = inaccurateNorms'[p]
           /\ Increasing(inaccurateNorms'[p])
           /\ \A jl \in DOMAIN normsAt[p] :
                IF jl \in TrailingAt(p) /\ normsAt[p][jl] # 0
                THEN IF Inaccurate(normsAt[p][jl], origNormsAt[p][jl], a12At(p, jl))
                     THEN /\ Holds(inaccurateNorms'[p], jl)
                          /\ normsAt'[p][jl] = A_colSq[TheRun][GlobalCol(q, jl)]
                          /\ origNormsAt'[p][jl] = normsAt'[p][jl]
                     ELSE /\ ~Holds(inaccurateNorms'[p], jl)
                          /\ normsAt'[p][jl] = Downdated(normsAt[p][jl], a12At(p, jl))
                          /\ origNormsAt'[p][jl] = origNormsAt[p][jl]
                ELSE /\ ~Holds(inaccurateNorms'[p], jl)
                     /\ normsAt'[p][jl] = normsAt[p][jl]
                     /\ origNormsAt'[p][jl] = origNormsAt[p][jl]]_vars

\* Witness: on a 2 x 2 grid two steps are done; in the second the processes
\* of one grid column passed a list with an entry and those of the other an
\* empty list, each to its one call of ReplaceColumnNorms of that step.
BG_BatchedRecompute_Witness ==
  /\ op = "GridBusingerGolub" /\ gridH = 2 /\ gridW = 2
  /\ \A p \in GridProcs :
       /\ pc[p] = "done" /\ colAt[p] = 2
       /\ Count(log[p], "ReplaceColumnNorms") = 2
  /\ \E p1, p2 \in GridProcs : inaccurateNorms[p1] = <<>> /\ Len(inaccurateNorms[p2]) = 1


(***************************************************************************)
(* qr::BusingerGolub: the indices of the pivot search.                     *)
(***************************************************************************)
\* The entries of norms that FindPivot( norms, c ) reads: those of the range
\* c..n-1 that std::max_element walks, and the one it returns, which for an
\* empty range is the end of the vector.
FindPivot_Reads(nrm, c) ==
  LET n == Cardinality(DOMAIN nrm)
  IN  IF c < n THEN c..(n - 1) ELSE {n}
\* The pivot searches that run r makes at its next step: one on the whole
\* vector in the sequential driver, one per process column in the
\* distributed driver, from localColsBefore on.
Searches(r) ==
  IF distributed
  THEN {<<norms[r][q], localColsBefore(q, col[r])>> : q \in BG_Cols}
  ELSE {<<norms[r][0], col[r]>>}
Recorded(r) == {i \in DOMAIN pVec[r] : pVec[r][i] # 0 - 1}

\* C28: with maxSteps <= min(m,n) the pivot search stays inside its
\* arrays: every recorded pivot of step col satisfies col <= p[col] < n,
\* and every entry of norms that FindPivot reads (called directly by the
\* sequential driver, and with localColsBefore = Length(col,rowShift,
\* rowStride) by FindColumnPivot on every process) has an index below the
\* size of the vector.
BG_PivotSearchInBounds ==
  \A r \in Runs :
    /\ \A i \in Recorded(r) : i - 1 <= pVec[r][i] /\ pVec[r][i] < width
    /\ pcBG[r] = "loop" =>
         \A search \in Searches(r) :
           \A k \in FindPivot_Reads(search[1], search[2]) :
             k < Cardinality(DOMAIN search[1])


(***************************************************************************)
(* ColFilter where B takes the row alignment of A: B is free to be         *)
(* realigned, or constrained to the alignment A has.                       *)
(***************************************************************************)
InitAligned ==
  /\ InitColFilter
  /\ sameGrid /\ compatDist
  /\ B_rowConstrained => B_rowAlign0 = A_rowAlign
NextAligned == \E p \in Procs : ColFilter_impl(p)
SpecAligned == InitAligned /\ [][NextAligned]_vars

\* The local entry (iLoc,jLoc) of A and of B on process p.
A_GetLocal(p, iLoc, jLoc) == Rd(A_LockedBuffer(p), iLoc + jLoc * A_LDim)
B_GetLocal(p, iLoc, jLoc) == Rd(B_buf[p], iLoc + jLoc * B_LDim(p))

\* C29: on the aligned path of ColFilter (B.RowAlign() == A.RowAlign()
\* after AlignRowsAndResize) a process neither sends nor receives, and the
\* local entry (iLoc,jLoc) of B is the local entry (colShift +
\* iLoc*colStride, jLoc) of A, for all 0 <= iLoc < B.LocalHeight() and
\* 0 <= jLoc < B.LocalWidth(); that entry lies inside A's local matrix.
CF_AlignedIsLocalFilter ==
  op = "ColFilter" =>
    \A p \in Procs :
      (pc[p] = "done" /\ B_rowAlign[p] = A_rowAlign) =>
        /\ log[p] = <<"AlignRowsAndResize", "InterleaveMatrix">>
        /\ \A m \in net : m.src # p /\ m.dst # p
        /\ B_height[p] = height /\ B_width[p] = width
        /\ \A iLoc \in 0..(B_LocalHeight(p) - 1), jLoc \in 0..(B_LocalWidth(p) - 1) :
             /\ ColShift(p) + iLoc * ColStride < A_LocalHeight
             /\ jLoc < A_LocalWidth(p)
             /\ B_GetLocal(p, iLoc, jLoc) = A_GetLocal(p, ColShift(p) + iLoc * ColStride, jLoc)
             /\ B_GetLocal(p, iLoc, jLoc) =
                  AVal(ColShift(p) + iLoc * ColStride, RowShift(p, A_rowAlign) + jLoc * RowStride)

\* Witness: a process with column shift 1 of column stride 2 has filtered a
\* 2 x 3 matrix locally: its B holds row 1 of two local columns of A.
CF_AlignedIsLocalFilter_Witness ==
  /\ op = "ColFilter" /\ ColStride = 2 /\ height = 2 /\ width = 3
  /\ \E p \in Procs :
       /\ pc[p] = "done" /\ B_rowAlign[p] = A_rowAlign /\ ColShift(p) = 1
       /\ B_LocalHeight(p) = 1 /\ B_LocalWidth(p) = 2
       /\ B_GetLocal(p, 0, 1) = A_GetLocal(p, 1, 1)
       /\ net = {}


(***************************************************************************)
(* copy::Scatter: the buffers of the collective.                           *)
(***************************************************************************)
\* buffer.allocate(sendSize+recvSize) on the root of A, buffer.allocate(
\* recvSize) elsewhere; recvBuf = buffer.data() + sendSize on the root.
SC_Allocated(p) ==
  IF A_CrossRank(p) = root THEN scatterSendSize + scatterRecvSize ELSE scatterRecvSize
SC_RecvOffset(p) == IF A_CrossRank(p) = root THEN scatterSendSize ELSE 0
SC_SendRegion == 0..(scatterSendSize - 1)
SC_RecvRegion(p) == SC_RecvOffset(p)..(SC_RecvOffset(p) + scatterRecvSize - 1)
\* mpi::Scatter with send count pkgSize: the portion of the send buffer
\* that goes to rank r of B's DistComm.
SC_Chunk(r) == (r * pkgSize)..((r + 1) * pkgSize - 1)
\* The processes that reach the collective.
Scatters(p) == InGrid(p) /\ ~SC_GridError /\ ~SC_Redundant /\ ~SC_NoTarget(p) /\ DistSize # 1

\* C30: the buffers of Scatter are large enough and do not overlap.  On
\* every destination the unpacked size LocalHeight * LocalWidth is at most
\* pkgSize = Pad(MaxLength(m,colStride) * MaxLength(n,rowStride)); the send
\* buffer of the root has DistSize * pkgSize entries, one portion of
\* pkgSize per rank of B's DistComm, disjoint from the others, and the pack
\* writes the entries of rank r inside portion r; the receive region of the
\* root starts at offset sendSize, inside the allocation and clear of the
\* send region.
SC_BuffersFit ==
  op = "Scatter" =>
    /\ (\A p \in Procs : pc[p] = "call") =>
         \A p \in Procs :
           Scatters(p) =>
             /\ LocalSize(p) <= pkgSize
             /\ SC_Chunk(DistRank(p)) \subseteq SC_SendRegion
             /\ \A p2 \in Procs :
                  (Scatters(p2) /\ DistRank(p2) # DistRank(p))
                    => SC_Chunk(DistRank(p)) \cap SC_Chunk(DistRank(p2)) = {}
             /\ UNION {SC_Chunk(r) : r \in 0..(DistSize - 1)} = SC_SendRegion
             /\ SC_RecvRegion(p) \subseteq 0..(SC_Allocated(p) - 1)
             /\ A_CrossRank(p) = root => SC_RecvRegion(p) \cap SC_SendRegion = {}
    /\ \A q \in Procs :
         (Scatters(q) /\ A_CrossRank(q) = root /\ pc[q] = "scatter") =>
           \E sent \in {posted[DistRank(q)]} :
             /\ ~sent.null
             /\ sent.count = pkgSize
             /\ DOMAIN sent.buf = SC_SendRegion
             /\ \A p \in Procs :
                  Scatters(p) =>
                    \A k \in 0..(pkgSize - 1) :
                      sent.buf[DistRank(p) * pkgSize + k] # Stale <=> k < LocalSize(p)
    /\ \A p \in Procs : B_rowAlign[p] = B_rowAlign0

\* Witness: the root has packed a 1 x 3 matrix for a 2 x 2 grid into four
\* portions of two entries; one destination fills its portion and another
\* owns nothing, and the root has unpacked its own portion.
SC_BuffersFit_Witness ==
  /\ op = "Scatter" /\ dist = "MC_MR" /\ gridH = 2 /\ gridW = 2
  /\ height = 1 /\ width = 3 /\ pkgSize = 2
  /\ \E r \in DOMAIN posted : ~posted[r].null /\ Cardinality(DOMAIN posted[r].buf) = 8
  /\ \E p1, p2 \in Procs :
       /\ Scatters(p1) /\ Scatters(p2)
       /\ LocalSize(p1) = 2 /\ LocalSize(p2) = 0
  /\ \E p \in Procs : A_CrossRank(p) = root /\ pc[p] = "done" /\ Count(log[p], "Unpack") = 1

(***************************************************************************)
(* copy::Scatter: the root of the collective.                              *)
(***************************************************************************)
\* The members of B's DistComm on process p that take the packing branch.
Packers(p) == {q \in Procs : InGrid(q) /\ InDistComm(p, q) /\ A_CrossRank(q) = root}

\* C31: in every call that reaches the collective exactly one process of
\* B's DistComm takes the packing branch A.CrossRank() = A.Root(), and its
\* rank in B's DistComm is the translated root `target` that every member
\* passes to mpi::Scatter; that process packs once and passes its send
\* buffer, every other member passes a null send buffer, so that no
\* member finds a null buffer at the root of the collective.
SC_RootConsistent ==
  op = "Scatter" =>
    \A p \in Procs :
      /\ err[p] # "Null send buffer at the root"
      /\ EnteredScatter(p) =>
           /\ Cardinality(Packers(p)) = 1
           /\ \A q \in Packers(p) : DistRank(q) = target(p)
           /\ posted[DistRank(p)].root = target(p)
           /\ posted[DistRank(p)].null <=> A_CrossRank(p) # root
           /\ Count(log[p], "StridedPack") = (IF A_CrossRank(p) = root THEN 1 ELSE 0)

\* Witness: on a 2 x 2 grid under [VR,STAR] the root of A has VC rank 1 and
\* rank 2 in B's DistComm; it has packed and entered with target 2, and
\* another member has entered with a null send buffer and the same target.
SC_RootConsistent_Witness ==
  /\ op = "Scatter" /\ dist = "VR_STAR" /\ gridH = 2 /\ gridW = 2 /\ root = 1
  /\ EnteredScatter(1) /\ DistRank(1) = 2 /\ target(1) = 2
  /\ ~posted[2].null /\ posted[2].root = 2
  /\ \E p \in Procs :
       /\ p # 1 /\ EnteredScatter(p)
       /\ posted[DistRank(p)].null /\ posted[DistRank(p)].root = 2

(***************************************************************************)
(* copy::ColFilter_impl called by the processes of one row communicator of *)
(* B and by a process outside the grid of B.                               *)
(***************************************************************************)
InitColFilterOffGrid ==
  /\ op = "ColFilterOffGrid"
  /\ dist \in {"MC_MR", "VR_STAR"}
  /\ gridH \in 1..MaxGridHeight
  /\ gridW \in 1..MaxGridWidth
  /\ height \in 0..MaxHeight
  /\ width \in 0..MaxWidth
  /\ sameGrid = TRUE
  /\ compatDist = TRUE
  /\ release = FALSE
  /\ colRank = 0
  /\ B_colAlign \in 0..(ColStride - 1)
  /\ A_rowAlign \in 0..(RowStride - 1)
  /\ B_rowAlign0 \in 0..(RowStride - 1)
  /\ B_rowConstrained \in BOOLEAN
  /\ A_root = 0
  /\ InitProcesses

NextColFilterOffGrid ==
  \/ \E p \in Procs : ColFilter_impl(p)
  \/ \E p \in Procs : ColFilter_SendRecv(p)

SpecColFilterOffGrid == InitColFilterOffGrid /\ [][NextColFilterOffGrid]_vars

\* B.RowAlign() after AlignRowsAndResize.
RealignedTo ==
  IF B_rowConstrained THEN B_rowAlign0 ELSE Mod(A_rowAlign, RowStride)

NormAfterSwap(r, j) == AtColumn(SwapNorms(norms[r], col[r], StepPivot(r)), j)
OrigNormAfterSwap(r, j) == AtColumn(SwapOrigNorms(origNorms[r], col[r], StepPivot(r)), j)

\* C33: a trailing column whose norm estimate is exactly 0 is frozen.  In
\* every step of every run, sequential or distributed, alwaysRecompute set
\* or not, a trailing column that enters the update loop with estimate 0
\* leaves it with estimate 0 and with the origNorms entry it came with
\* (it is neither scaled nor recomputed); and a trailing column with
\* estimate 0 before the step that is not the pivot's position has the same
\* two entries after the step.
BG_ZeroNormFrozen ==
  [][\A r \in Runs :
       Iterates(r) =>
         \A j \in (col[r] + 1)..(width - 1) :
           /\ NormAfterSwap(r, j) = 0 =>
                /\ AtColumn(norms'[r], j) = 0
                /\ AtColumn(origNorms'[r], j) = OrigNormAfterSwap(r, j)
           /\ (AtColumn(norms[r], j) = 0 /\ j # StepPivot(r)) =>
                /\ AtColumn(norms'[r], j) = 0
                /\ AtColumn(origNorms'[r], j) = AtColumn(origNorms[r], j)]_vars

\* Witness: a run with alwaysRecompute set has completed its first step on a
\* matrix whose column 0 was zero and was exchanged with the pivot: the
\* pivot's position now holds the estimate 0, and the estimate of another
\* trailing column was recomputed in the same step.
BG_ZeroNormFrozen_Witness ==
  \E r \in Runs :
    /\ r /\ col[r] = 1 /\ width = 3 /\ pVec[r][1] = 1
    /\ AtColumn(norms[r], 1) = 0
    /\ AtColumn(norms[r], 2) # 0

(***************************************************************************)
(* origNorms, the baseline of the norm estimates.                          *)
(***************************************************************************)
\* One run with either value of alwaysRecompute on columns that are zero or
\* large enough for an estimate to be scaled without being flagged; tol = 0
\* and maxSteps = min(m,n), so that the loop runs as long as a nonzero
\* column is left.
InitBaseline ==
  /\ \E alwaysRecompute \in BOOLEAN : InitBusingerGolub({alwaysRecompute}, MaxPairNormSq)
  /\ \A r \in Runs : \A j \in DOMAIN A_colSq[r] : A_colSq[r][j] \in {0, MaxPairNormSq}
  /\ tol2 = 0
  /\ maxSteps = (IF height <= width THEN height ELSE width)
SpecBaseline == InitBaseline /\ [][NextBusingerGolub]_vars

\* Position j takes the entries of column col in the swap of this step.
ReceivesInSwap(r, j) == j = StepPivot(r) /\ j # col[r]

\* C34: in every step and for every trailing column j, origNorms[j]
\* changes only when the estimate of j is recomputed in the step, and is
\* then equal to the new norms[j], or when j takes the entries of column
\* col in the pivot swap, and is then the origNorms entry column col had;
\* an incremental update scales norms[j] and leaves origNorms[j] as the
\* swap left it; and after the step norms[j] <= origNorms[j].
BG_BaselineReset ==
  [][\A r \in Runs :
       Iterates(r) =>
         \A j \in (col[r] + 1)..(width - 1) :
           /\ AtColumn(origNorms'[r], j) # AtColumn(origNorms[r], j) =>
                \/ Flagged(r, j) /\ AtColumn(origNorms'[r], j) = AtColumn(norms'[r], j)
                \/ /\ ReceivesInSwap(r, j)
                   /\ AtColumn(origNorms'[r], j) = AtColumn(origNorms[r], col[r])
           /\ Flagged(r, j) => AtColumn(origNorms'[r], j) = AtColumn(norms'[r], j)
           /\ (Estimated(r, j) /\ ~Flagged(r, j)) =>
                /\ AtColumn(origNorms'[r], j) = OrigNormAfterSwap(r, j)
                /\ AtColumn(norms'[r], j) = Downdated(NormAfterSwap(r, j), StepReflection(r, j))
           /\ AtColumn(norms'[r], j) <= AtColumn(origNorms'[r], j)]_vars

\* Witness: a run without alwaysRecompute has completed a step in which the
\* estimate of column 1 was scaled from 2 to 1 below its baseline 2, and
\* kept another column whose baseline the step did not touch.
BG_BaselineReset_Witness ==
  /\ Runs = {FALSE} /\ width = 3
  /\ col[FALSE] = 1
  /\ AtColumn(norms[FALSE], 1) = 1 /\ AtColumn(origNorms[FALSE], 1) = 2
  /\ AtColumn(norms[FALSE], 2) = AtColumn(origNorms[FALSE], 2)

(***************************************************************************)
(* Write( const AbstractDistMatrix<T>& A, basename, format, title ), called *)
(* by every process of the grid of A and by a process outside it.  log     *)
(* holds the calls of each process, posted the processes that have entered *)
(* the conversion to [CIRC,CIRC].                                          *)
(***************************************************************************)
\* The distributions of A that are explored.
WriteDists ==
  {"MC_MR", "MC_STAR", "MR_MC", "MR_STAR", "STAR_MC", "STAR_MR", "STAR_STAR",
   "STAR_VC", "STAR_VR", "VC_STAR", "VR_STAR", "CIRC_CIRC"}

\* if( A.ColStride() == 1 && A.RowStride() == 1 )
W_Local == ColStride = 1 /\ RowStride = 1
\* Mutant: the redundant rank is not tested.
W_Writes_CrossOnly(p) == CrossRank(p) = Root
\* if( A.CrossRank() == A.Root() && A.RedundantRank() == 0 )
W_Writes(p) == CrossRank(p) = Root /\ RedundantRank(p) = 0
\* DistMatrix<T,CIRC,CIRC> A_CIRC_CIRC( A ): on the grid of A, root 0.
W_CIRC_Root == 0
\* if( A_CIRC_CIRC.CrossRank() == A_CIRC_CIRC.Root() )
W_WritesConverted(p) == A_CrossRank(p) = W_CIRC_Root

\* The call up to its return or to the entry of the conversion.
Write_Dist(p) ==
  /\ op = "Write"
  /\ pc[p] = "call"
  /\ IF W_Local
     THEN /\ log' = [log EXCEPT ![p] = IF W_Writes(p) THEN <<"Write">> ELSE <<>>]
          /\ pc' = [pc EXCEPT ![p] = "done"]
          /\ UNCHANGED posted
     ELSE /\ log' = [log EXCEPT ![p] = <<"Copy">>]
          /\ pc' = [pc EXCEPT ![p] = "convert"]
          /\ posted' = (p :> "Copy") @@ posted
  /\ UNCHANGED <<config, nonCopy, B_rowAlign, B_height, B_width, B_buf, err, net>>

\* The conversion returns: on the root of A_CIRC_CIRC once every process of
\* the grid has entered it, elsewhere as soon as the process has sent its
\* part; then the root writes.
Write_Converted(p) ==
  /\ op = "Write"
  /\ pc[p] = "convert"
  /\ W_WritesConverted(p) => \A q \in Procs : InGrid(q) => q \in DOMAIN posted
  /\ log' = [log EXCEPT ![p] = IF W_WritesConverted(p) THEN Append(@, "Write") ELSE @]
  /\ pc' = [pc EXCEPT ![p] = "done"]
  /\ UNCHANGED <<config, nonCopy, B_rowAlign, B_height, B_width, B_buf, err, net, posted>>

InitWrite ==
  /\ op = "Write"
  /\ dist \in WriteDists
  /\ \E g \in ScatterGrids : gridH = g[1] /\ gridW = g[2]
  /\ A_root \in (IF dist = "CIRC_CIRC" THEN 0..(VRSize - 1) ELSE {0})
  /\ height = 1 /\ width = 1
  /\ release = FALSE /\ sameGrid = TRUE /\ compatDist = TRUE
  /\ colRank = 0 /\ A_rowAlign = 0 /\ B_colAlign = 0 /\ B_rowAlign0 = 0
  /\ B_rowConstrained = FALSE
  /\ pc = [q \in Procs |-> "call"]
  /\ B_rowAlign = [q \in Procs |-> 0]
  /\ B_height = [q \in Procs |-> 0]
  /\ B_width = [q \in Procs |-> 0]
  /\ B_buf = [q \in Procs |-> Buffer(0, Stale)]
  /\ err = [q \in Procs |-> ""]
  /\ log = [q \in Procs |-> <<>>]
  /\ net = {}
  /\ posted = <<>>
  /\ IdleQR
  /\ IdleAssign
  /\ IdleSVM
  /\ IdleGrid

NextWrite ==
  \/ \E p \in Procs : Write_Dist(p)
  \/ \E p \in Procs : Write_Converted(p)

SpecWrite == InitWrite /\ [][NextWrite]_vars

\* The processes that have called the sequential Write.
Writers == {p \in Procs : Count(log[p], "Write") > 0}

\* C35: Write of a distributed matrix writes one file per call, for every
\* distribution and grid.  No process calls the sequential Write twice and
\* no two processes call it; when every process has returned exactly one
\* has called it.  With ColStride() = RowStride() = 1 the writer is the one
\* process with CrossRank() = Root() and RedundantRank() = 0 and no process
\* enters a conversion or communicates; otherwise every process that has
\* made the call has entered the conversion to [CIRC,CIRC] and the writer
\* is the root of the converted matrix.
W_OneFileWrite ==
  op = "Write" =>
    /\ \A p \in Procs : Count(log[p], "Write") <= 1
    /\ Cardinality(Writers) <= 1
    /\ (\A p \in Procs : pc[p] = "done") => Cardinality(Writers) = 1
    /\ W_Local =>
         /\ Cardinality({p \in Procs : W_Writes(p)}) = 1
         /\ \A p \in Writers : W_Writes(p)
         /\ posted = <<>> /\ net = {}
         /\ \A p \in Procs : Count(log[p], "Copy") = 0 /\ pc[p] # "convert"
    /\ ~W_Local =>
         /\ \A p \in Procs : pc[p] # "call" => Head(log[p]) = "Copy" /\ p \in DOMAIN posted
         /\ \A p \in Writers : A_CrossRank(p) = W_CIRC_Root
         /\ Writers # {} => \A q \in Procs : InGrid(q) => pc[q] # "call"

\* Witness: a [STAR,STAR] matrix on a 2 x 2 grid has been written by the
\* process of redundant rank 0 alone, the four processes of the grid and
\* the one outside it having returned without entering a conversion.
W_OneFileWrite_Witness ==
  /\ op = "Write" /\ gridH = 2 /\ gridW = 2 /\ dist = "STAR_STAR"
  /\ \A p \in Procs : pc[p] = "done"
  /\ Writers = {0} /\ log[0] = <<"Write">>
  /\ \A p \in Procs \ {0} : log[p] = <<>>

(***************************************************************************)
(* The descriptor of [VR,STAR].                                            *)
(***************************************************************************)
\* The processes of the grid.
Members == {p \in Procs : InGrid(p)}

\* C36: on every r x c grid the descriptor of [VR,STAR] is consistent:
\* ColStride() = DistSize() = VRSize = PartialColStride() *
\* PartialUnionColStride() = r * c, the number of processes of the grid,
\* whose DistRank() are the ranks 0..VRSize-1, one each; RowStride() = 1,
\* CrossSize() = RedundantSize() = 1, and every process of the grid has
\* CrossRank() = RedundantRank() = RowRank() = 0.  Hence a Scatter from
\* [CIRC,CIRC] into [VR,STAR] never takes the GeneralPurpose fallback.
VRSTAR_Consistent ==
  (op = "Scatter" /\ dist = "VR_STAR") =>
    /\ ColStride = DistSize
    /\ DistSize = VRSize
    /\ VRSize = VRSTAR_PartialColStride * VRSTAR_PartialUnionColStride
    /\ VRSize = Cardinality(Members)
    /\ {DistRank(p) : p \in Members} = 0..(VRSize - 1)
    /\ RowStride = 1
    /\ CrossSize = 1 /\ RedundantSize = 1
    /\ \A p \in Members : CrossRank(p) = 0 /\ RedundantRank(p) = 0 /\ RowRank(p) = 0
    /\ ~SC_Redundant
    /\ \A p \in Procs : Count(log[p], "GeneralPurpose") = 0

\* Witness: on a 2 x 2 grid a process of a [VR,STAR] destination has come
\* through the collective and unpacked its portion, and the process of MC
\* rank 1 and MR rank 0 has rank 2 among the four of the DistComm.
VRSTAR_Consistent_Witness ==
  /\ op = "Scatter" /\ dist = "VR_STAR" /\ gridH = 2 /\ gridW = 2 /\ sameGrid
  /\ DistSize = 4 /\ DistRank(1) = 2
  /\ \E p \in Members :
       pc[p] = "done" /\ log[p] = <<"Resize", "Translate", "Scatter", "Unpack">>

(***************************************************************************)
(* svm::IPM on a DistSparseMatrix A and a DistMultiVec d over the commSize *)
(* processes of A.Comm().  A distributed sparse matrix or multi-vector of  *)
(* height h gives each process one block of consecutive rows, the last     *)
(* process taking the remainder.  Here the variables of Q and G and pcIPM  *)
(* are held per process.                                                   *)
(***************************************************************************)
Min(a, b) == IF a <= b THEN a ELSE b

commSize == gridH * gridW
CommRanks == 0..(commSize - 1)

Blocksize(h) == h \div commSize
FirstLocalRow(h, q) == q * Blocksize(h)
LocalHeight(h, q) == IF q < commSize - 1 THEN Blocksize(h) ELSE h - (commSize - 1) * Blocksize(h)
GlobalRow(h, q, iLoc) == FirstLocalRow(h, q) + iLoc
RowOwner(h, i) == IF Blocksize(h) > 0 THEN Min(i \div Blocksize(h), commSize - 1) ELSE commSize - 1

\* The entries of A stored by process q, in storage order: A.Row(e),
\* A.Col(e), A.Value(e) for e < A.NumLocalEntries().
A_Local(q) == SelectSeq(A_entries, LAMBDA x : RowOwner(IPM_m, x[1]) = q)

\* d.GetLocal( iLoc, 0 ) on process q.
d_GetLocal(q, iLoc) == d[GlobalRow(IPM_m, q, iLoc)]

\* The owners the loop over the local entries of A and the loop over the
\* local rows of d visit, in order.
OwnersOfA(q) == [e \in 1..Len(A_Local(q)) |-> RowOwner(G_Height, A_Local(q)[e][1])]
OwnersOfd(q) == [k \in 1..LocalHeight(IPM_m, q) |-> RowOwner(G_Height, GlobalRow(IPM_m, q, k - 1))]

\* The number of elements of a list equal to x.
Occurrences(s, x) == Cardinality({k \in DOMAIN s : s[k] = x})

\* Mutant: the counting pass skips the rows of d.
IPM_sendCounts_EntriesOnly(q) == [r \in CommRanks |-> Occurrences(OwnersOfA(q), r)]

\* sendCounts after `++sendCounts[ G.RowOwner(A.Row(e)) ]` for each local
\* entry and `++sendCounts[ G.RowOwner(d.GlobalRow(iLoc)) ]` for each local
\* row of d.
IPM_sendCounts(q) == [r \in CommRanks |-> Occurrences(OwnersOfA(q), r) + Occurrences(OwnersOfd(q), r)]

\* Scan( counts, offs ): the exclusive prefix sums, and their total.
RECURSIVE SumBelow(_, _)
SumBelow(counts, r) == IF r = 0 THEN 0 ELSE SumBelow(counts, r - 1) + counts[r - 1]
Scan(counts) == [r \in CommRanks |-> SumBelow(counts, r)]
ScanTotal(counts) == SumBelow(counts, commSize)

\* `sendBuf[offs[owner]++] = entry`.  writes counts the stores into each
\* slot; a store past the end of sendBuf is recorded in overrun.
PackEntry(st, owner, entry) ==
  LET k == st.offs[owner]
  IN IF k \in DOMAIN st.sendBuf
     THEN [st EXCEPT !.sendBuf[k] = entry, !.writes[k] = @ + 1, !.offs[owner] = k + 1]
     ELSE [st EXCEPT !.overrun = TRUE, !.offs[owner] = k + 1]

\* The packing loop over the local entries of A, from entry e on.
RECURSIVE PackA(_, _, _)
PackA(st, q, e) ==
  IF e >= Len(A_Local(q)) THEN st
  ELSE LET i == A_Local(q)[e + 1][1]
           value == (0 - d_GetLocal(q, i - FirstLocalRow(IPM_m, q))) * A_Local(q)[e + 1][3]
       IN PackA(PackEntry(st, RowOwner(G_Height, i), <<i, A_Local(q)[e + 1][2], value>>), q, e + 1)

\* The packing loop over the local rows of d, from iLoc on.
RECURSIVE Packd(_, _, _)
Packd(st, q, iLoc) ==
  IF iLoc >= LocalHeight(IPM_m, q) THEN st
  ELSE LET i == GlobalRow(IPM_m, q, iLoc)
       IN Packd(PackEntry(st, RowOwner(G_Height, i), <<i, IPM_n, 0 - d_GetLocal(q, iLoc)>>), q, iLoc + 1)

\* The metadata and the packed buffer of process q: sendBuf starts as
\* totalSend value-initialized entries and offs as a copy of sendOffs.
Packed(q) ==
  LET counts == IPM_sendCounts(q)
      totalSend == ScanTotal(counts)
      start == [sendCounts |-> counts,
                sendOffs |-> Scan(counts),
                offs |-> Scan(counts),
                sendBuf |-> [k \in 0..(totalSend - 1) |-> <<0, 0, 0>>],
                writes |-> [k \in 0..(totalSend - 1) |-> 0],
                overrun |-> FALSE,
                recvBuf |-> <<>>]
  IN Packd(PackA(start, q, 0), q, 0)

\* The updates of the top-left identity queued by process q:
\* Q.QueueLocalUpdate( iLoc, Q.GlobalRow(iLoc), 1 ) where Q.GlobalRow(iLoc) < n.
RECURSIVE Q_LocalUpdates(_, _, _)
Q_LocalUpdates(queue, q, iLoc) ==
  IF iLoc >= LocalHeight(Q_Height, q) THEN queue
  ELSE LET i == GlobalRow(Q_Height, q, iLoc)
       IN Q_LocalUpdates(IF i < IPM_n THEN QueueUpdate(queue, i, i, 1) ELSE queue, q, iLoc + 1)

\* numLocalUpdates: the counting loop stops at the first local row that is
\* not below n.
RECURSIVE Q_numLocalUpdates(_, _)
Q_numLocalUpdates(q, iLoc) ==
  IF iLoc >= LocalHeight(Q_Height, q) THEN 0
  ELSE IF GlobalRow(Q_Height, q, iLoc) < IPM_n THEN 1 + Q_numLocalUpdates(q, iLoc + 1)
  ELSE 0

\* Process q assembles its rows of Q, counts and packs what it sends for G,
\* and enters mpi::AllToAll.  A store past the end of sendBuf is undefined.
DistIPM_Pack(q) ==
  /\ op = "DistIPM" /\ pcIPM[q] = "call"
  /\ Q_capacity' = [Q_capacity EXCEPT ![q] = Q_numLocalUpdates(q, 0)]
  /\ Q_entries' = [Q_entries EXCEPT ![q] = ProcessQueues(<<>>, Q_LocalUpdates(<<>>, q, 0))]
  /\ \E st \in {Packed(q)} :
       /\ ipmAt' = [ipmAt EXCEPT ![q] = st]
       /\ pcIPM' = [pcIPM EXCEPT ![q] = IF st.overrun THEN "undefined" ELSE "AllToAll"]
  /\ UNCHANGED <<config, nonSVM, lambda, qp, A_entries, d, Q_queue, G_queue, G_entries, G_capacity>>

\* The segment of sender s for receiver q.
Segment(s, q) ==
  [k \in 1..ipmAt[s].sendCounts[q] |-> ipmAt[s].sendBuf[ipmAt[s].sendOffs[q] + k - 1]]

\* mpi::AllToAll( sendBuf, sendCounts, sendOffs, comm ) on process q: the
\* segments addressed to q, in the order of their senders.
RECURSIVE AllToAll(_, _)
AllToAll(q, s) == IF s >= commSize THEN <<>> ELSE Segment(s, q) \o AllToAll(q, s + 1)

\* `for( auto& entry : recvBuf ) G.QueueUpdate( entry )`.
G_UpdatesOfRecv(queue, recvBuf) == queue \o recvBuf

\* `G.QueueLocalUpdate( iLoc, i+n+1, -1 )` for i < m, and
\* `G.QueueLocalUpdate( iLoc, i-m+n+1, -1 )` otherwise, i = G.GlobalRow(iLoc).
RECURSIVE G_LocalUpdatesOfI(_, _, _)
G_LocalUpdatesOfI(queue, q, iLoc) ==
  IF iLoc >= LocalHeight(G_Height, q) THEN queue
  ELSE LET i == GlobalRow(G_Height, q, iLoc)
       IN G_LocalUpdatesOfI(QueueUpdate(queue, i, IF i < IPM_m THEN i + IPM_n + 1 ELSE i - IPM_m + IPM_n + 1, 0 - 1), q, iLoc + 1)

\* The exchange completes on process q once every process has entered it;
\* q reserves and queues what it received and its rows of the -I blocks.
DistIPM_Unpack(q) ==
  /\ op = "DistIPM" /\ pcIPM[q] = "AllToAll"
  /\ \A s \in CommRanks : pcIPM[s] \in {"AllToAll", "G.ProcessQueues", "done"}
  /\ \E recvBuf \in {AllToAll(q, 0)} :
       /\ ipmAt' = [ipmAt EXCEPT ![q].recvBuf = recvBuf]
       /\ G_capacity' = [G_capacity EXCEPT ![q] = Len(recvBuf) + LocalHeight(G_Height, q)]
       /\ G_queue' = [G_queue EXCEPT ![q] = G_LocalUpdatesOfI(G_UpdatesOfRecv(<<>>, recvBuf), q, 0)]
  /\ pcIPM' = [pcIPM EXCEPT ![q] = "G.ProcessQueues"]
  /\ UNCHANGED <<config, nonSVM, lambda, qp, A_entries, d, Q_queue, Q_entries, Q_capacity, G_entries>>
\* The rows a distributed object of height h stores on process q.
LocalRows(h, q) == {GlobalRow(h, q, iLoc) : iLoc \in 0..(LocalHeight(h, q) - 1)}

\* Zeros( X, h, w ) on a DistMultiVec: the local rows on process q, by
\* global row.
DistZeros(h, w, q) ==
  [height |-> h, width |-> w, at |-> [x \in LocalRows(h, q) \X (0..(w - 1)) |-> 0]]

\* `if( c.GlobalRow(iLoc) > n ) c.SetLocal( iLoc, 0, lambda )` over the
\* local rows of c.
RECURSIVE c_SetLocal(_, _, _)
c_SetLocal(c, q, iLoc) ==
  IF iLoc >= LocalHeight(c.height, q) THEN c
  ELSE LET i == GlobalRow(c.height, q, iLoc)
       IN c_SetLocal(IF i > IPM_n THEN [c EXCEPT !.at[<<i, 0>>] = lambda] ELSE c, q, iLoc + 1)

\* Mutant: the loop does not stop at the first row that is not below m, and
\* sets the rows from m on as well.
RECURSIVE h_SetLocal_NoBreak(_, _, _)
h_SetLocal_NoBreak(h, q, iLoc) ==
  IF iLoc >= LocalHeight(h.height, q) THEN h
  ELSE h_SetLocal_NoBreak([h EXCEPT !.at[<<GlobalRow(h.height, q, iLoc), 0>>] = 0 - 1], q, iLoc + 1)

\* `if( h.GlobalRow(iLoc) < m ) h.SetLocal( iLoc, 0, -1 ); else break;`.
RECURSIVE h_SetLocal(_, _, _)
h_SetLocal(h, q, iLoc) ==
  IF iLoc >= LocalHeight(h.height, q) THEN h
  ELSE LET i == GlobalRow(h.height, q, iLoc)
       IN IF i < IPM_m THEN h_SetLocal([h EXCEPT !.at[<<i, 0>>] = 0 - 1], q, iLoc + 1)
          ELSE h

\* G.ProcessQueues() on process q, the assembly of h, and the call
\* QP( Q, AHat, G, b, c, h, ... ).
DistIPM_ProcessQueuesG(q) ==
  /\ op = "DistIPM" /\ pcIPM[q] = "G.ProcessQueues"
  /\ \E G \in {ProcessQueues(G_entries[q], G_queue[q])} :
       /\ G_entries' = [G_entries EXCEPT ![q] = G]
       /\ qp' = [qp EXCEPT ![q] =
                   [Q |-> Sparse(Q_Height, Q_Height, Q_entries[q]),
                    AHat |-> Sparse(0, G_Width, <<>>),
                    G |-> Sparse(G_Height, G_Width, G),
                    b |-> DistZeros(0, 1, q),
                    c |-> c_SetLocal(DistZeros(Q_Height, 1, q), q, 0),
                    h |-> h_SetLocal(DistZeros(G_Height, 1, q), q, 0)]]
  /\ G_queue' = [G_queue EXCEPT ![q] = <<>>]
  /\ pcIPM' = [pcIPM EXCEPT ![q] = "done"]
  /\ UNCHANGED <<config, nonSVM, lambda, ipmAt, A_entries, d, Q_queue, Q_entries, Q_capacity, G_capacity>>

\* A committed sparse matrix stores its entries by row, then by column, one
\* per position.
Committed(s) == \A i, j \in DOMAIN s : i < j => Before(s[i], s[j])

\* The arguments of IPM( A, d, lambda, x, ctrl ): a committed m x n matrix
\* A with entries of value 2, labels d of -1 or 1, and lambda = 2.
InitArguments ==
  /\ A_rowAlign = 0
  /\ height \in 0..MaxPoints
  /\ width \in 0..MaxFeatures
  /\ dist = "MC_MR" /\ release = FALSE /\ sameGrid = TRUE
  /\ compatDist = TRUE /\ colRank = 0 /\ A_root = 0 /\ B_colAlign = 0
  /\ B_rowAlign0 = 0 /\ B_rowConstrained = FALSE
  /\ pc = <<>> /\ B_rowAlign = <<>> /\ B_height = <<>> /\ B_width = <<>>
  /\ B_buf = <<>> /\ err = <<>> /\ log = <<>> /\ net = {} /\ posted = <<>>
  /\ IdleQR
  /\ IdleAssign
  /\ IdleGrid
  /\ \E len \in 0..MaxEntriesA :
       /\ A_entries \in [1..len -> (0..(height - 1)) \X (0..(width - 1)) \X {2}]
       /\ Committed(A_entries)
  /\ d \in [0..(height - 1) -> {0 - 1, 1}]
  /\ lambda = 2

\* The DistSparseMatrix overload is called on every process of a
\* communicator of at most MaxGridHeight processes.
InitDistIPM ==
  /\ op = "DistIPM"
  /\ gridH \in 1..MaxGridHeight
  /\ gridW = 1
  /\ InitArguments
  /\ Q_queue = [q \in CommRanks |-> <<>>]
  /\ Q_entries = [q \in CommRanks |-> <<>>]
  /\ Q_capacity = [q \in CommRanks |-> 0]
  /\ G_queue = [q \in CommRanks |-> <<>>]
  /\ G_entries = [q \in CommRanks |-> <<>>]
  /\ G_capacity = [q \in CommRanks |-> 0]
  /\ ipmAt = [q \in CommRanks |-> <<>>]
  /\ qp = [q \in CommRanks |-> <<>>]
  /\ pcIPM = [q \in CommRanks |-> "call"]

NextDistIPM ==
  \/ \E q \in CommRanks : DistIPM_Pack(q)
  \/ \E q \in CommRanks : DistIPM_Unpack(q)
  \/ \E q \in CommRanks : DistIPM_ProcessQueuesG(q)

SpecDistIPM == InitDistIPM /\ [][NextDistIPM]_vars

\* Process q has left the packing pass.
PackedBy(q) == pcIPM[q] \in {"AllToAll", "G.ProcessQueues", "done"}

\* The slots of the segment of sendBuf addressed to rank r.
SegmentSlots(st, r) == st.sendOffs[r]..(st.sendOffs[r] + st.sendCounts[r] - 1)

\* C37: in svm::IPM for DistSparseMatrix the counting pass and the packing
\* pass agree.  No store leaves sendBuf; after packing, offs[r] ==
\* sendOffs[r] + sendCounts[r] for every rank r, every slot of sendBuf was
\* stored to exactly once, the segments cover sendBuf without overlap, and
\* each packed entry lies in the segment of the owner of its row in G.
\* Every entry a process receives, queues into G and commits has a row
\* that process owns.
IPM_CountsMatchPacking ==
  op = "DistIPM" =>
    \A q \in CommRanks :
      /\ pcIPM[q] # "undefined"
      /\ PackedBy(q) =>
           /\ ~ipmAt[q].overrun
           /\ \A r \in CommRanks : ipmAt[q].offs[r] = ipmAt[q].sendOffs[r] + ipmAt[q].sendCounts[r]
           /\ \A k \in DOMAIN ipmAt[q].sendBuf :
                /\ ipmAt[q].writes[k] = 1
                /\ Cardinality({r \in CommRanks : k \in SegmentSlots(ipmAt[q], r)}) = 1
           /\ \A r \in CommRanks : \A k \in SegmentSlots(ipmAt[q], r) :
                /\ k \in DOMAIN ipmAt[q].sendBuf
                /\ RowOwner(G_Height, ipmAt[q].sendBuf[k][1]) = r
      /\ pcIPM[q] \in {"G.ProcessQueues", "done"} =>
           /\ \A k \in DOMAIN ipmAt[q].recvBuf : RowOwner(G_Height, ipmAt[q].recvBuf[k][1]) = q
           /\ G_capacity[q] = Len(ipmAt[q].recvBuf) + LocalHeight(G_Height, q)
      /\ pcIPM[q] = "G.ProcessQueues" =>
           /\ Len(G_queue[q]) = G_capacity[q]
           /\ \A k \in DOMAIN G_queue[q] :
                /\ RowOwner(G_Height, G_queue[q][k][1]) = q
                /\ G_queue[q][k][1] \in LocalRows(G_Height, q)
      /\ pcIPM[q] = "done" =>
           \A k \in DOMAIN G_entries[q] : G_entries[q][k][1] \in LocalRows(G_Height, q)

\* Two processes hold one row of a 2 x 1 matrix A each; process 1 has sent
\* its entry of A and its row of d to process 0, the owner of rows 0 and 1
\* of G, which has queued the four entries it received and two of -I.
IPM_CountsMatchPacking_Witness ==
  /\ op = "DistIPM" /\ commSize = 2 /\ IPM_m = 2 /\ IPM_n = 1
  /\ numEntriesA = 2
  /\ pcIPM[0] = "G.ProcessQueues"
  /\ ipmAt[1].sendCounts = [r \in CommRanks |-> IF r = 0 THEN 2 ELSE 0]
  /\ Len(ipmAt[0].recvBuf) = 4
  /\ Len(G_queue[0]) = 6
  /\ \E k \in DOMAIN G_queue[0] : G_queue[0][k][1] = 1 /\ G_queue[0][k][2] = IPM_n

(***************************************************************************)
(* The four overloads of svm::IPM side by side: Matrix ("DenseIPM"),       *)
(* DistMatrix ("DistDenseIPM", [MC,MR] with zero alignments, processes     *)
(* ranked column-major), SparseMatrix ("IPM") and DistSparseMatrix         *)
(* ("DistIPM").                                                            *)
(***************************************************************************)
\* The positions of a DistMatrix<Real> that process q stores.
LocalPositions(q) ==
  LET mcRank == MCRank(q)
      mrRank == MRRank(q)
  IN {x \in Everywhere : x[1] % gridH = mcRank /\ x[2] % gridW = mrRank}

\* The six matrices of the dense overloads on the positions of S.
Dense_QP(S) ==
  [Q |-> Dense_Q(S),
   AHat |-> Zeros(0, G_Width, S),
   G |-> Dense_G(S),
   b |-> Zeros(0, 1, S),
   c |-> Dense_c(S),
   h |-> Dense_h(S)]

\* The Matrix overload, up to its call of QP.
IPM_Dense ==
  /\ op = "DenseIPM" /\ pcIPM = "call"
  /\ qp' = Dense_QP(Everywhere)
  /\ pcIPM' = "done"
  /\ UNCHANGED <<config, nonSVM, lambda, ipmAt, A_entries, d, Q_queue, Q_entries, Q_capacity, G_queue, G_entries, G_capacity>>

\* The AbstractDistMatrix overload on process q, up to its call of QP.
IPM_DistDense(q) ==
  /\ op = "DistDenseIPM" /\ pcIPM[q] = "call"
  /\ \E S \in {LocalPositions(q)} : qp' = [qp EXCEPT ![q] = Dense_QP(S)]
  /\ pcIPM' = [pcIPM EXCEPT ![q] = "done"]
  /\ UNCHANGED <<config, nonSVM, lambda, ipmAt, A_entries, d, Q_queue, Q_entries, Q_capacity, G_queue, G_entries, G_capacity>>

\* The sparse matrices of the dense overloads are not used.
NoSparse ==
  /\ Q_queue = <<>> /\ Q_entries = <<>> /\ Q_capacity = 0
  /\ G_queue = <<>> /\ G_entries = <<>> /\ G_capacity = 0
  /\ ipmAt = <<>>

InitSparseIPM ==
  /\ op = "IPM"
  /\ gridH = 1 /\ gridW = 1
  /\ InitArguments
  /\ NoSparse
  /\ qp = <<>>
  /\ pcIPM = "Q"

InitDenseIPM ==
  /\ op = "DenseIPM"
  /\ gridH = 1 /\ gridW = 1
  /\ InitArguments
  /\ NoSparse
  /\ qp = <<>>
  /\ pcIPM = "call"

\* The grid of the DistMatrix overload has at most MaxProcs processes.
InitDistDenseIPM ==
  /\ op = "DistDenseIPM"
  /\ gridH \in 1..MaxGridHeight
  /\ gridW \in 1..MaxRowStride
  /\ gridH * gridW <= MaxProcs
  /\ InitArguments
  /\ NoSparse
  /\ qp = [q \in CommRanks |-> <<>>]
  /\ pcIPM = [q \in CommRanks |-> "call"]

InitQP == InitDenseIPM \/ InitDistDenseIPM \/ InitSparseIPM \/ InitDistIPM

NextQP ==
  \/ IPM_Dense
  \/ \E q \in CommRanks : IPM_DistDense(q)
  \/ NextIPM
  \/ NextDistIPM

SpecQP == InitQP /\ [][NextQP]_vars

\* The overload runs on every process of a communicator.
Distributed == op \in {"DistIPM", "DistDenseIPM"}

\* Every process has reached its call of QP.
QP_Called ==
  /\ op \in {"IPM", "DistIPM", "DenseIPM", "DistDenseIPM"}
  /\ IF Distributed THEN \A q \in CommRanks : pcIPM[q] = "done" ELSE pcIPM = "done"

\* The argument of QP of the given name on process q.
QP_Arg(name, q) == IF Distributed THEN qp[q][name] ELSE qp[name]

\* What a matrix, or the local part of one, holds at position x: a sparse
\* matrix the sum of its entries there, a dense one the value it stores.
ValueIn(X, x) ==
  IF "entries" \in DOMAIN X THEN SumAt(X.entries, x)
  ELSE IF x \in DOMAIN X.at THEN X.at[x] ELSE 0

\* The number of values the matrix stores for position x.
StoredIn(X, x) ==
  IF "entries" \in DOMAIN X
  THEN Cardinality({k \in DOMAIN X.entries : <<X.entries[k][1], X.entries[k][2]>> = x})
  ELSE IF x \in DOMAIN X.at THEN 1 ELSE 0

\* The positions a matrix stores values for.
StoredPositions(X) == IF "entries" \in DOMAIN X THEN Positions(X.entries) ELSE DOMAIN X.at

\* The value of the argument at x, and the number of values stored for x,
\* over the processes from q on.
RECURSIVE QP_ValueAt(_, _, _)
QP_ValueAt(name, x, q) ==
  IF q >= commSize THEN 0 ELSE ValueIn(QP_Arg(name, q), x) + QP_ValueAt(name, x, q + 1)

RECURSIVE QP_StoredAt(_, _, _)
QP_StoredAt(name, x, q) ==
  IF q >= commSize THEN 0 ELSE StoredIn(QP_Arg(name, q), x) + QP_StoredAt(name, x, q + 1)

\* The argument is the h x w matrix with the value T(x) at each position x:
\* every part has that shape and stores values inside it only, no position
\* has two values, and a position without a value is a zero of T.
Assembles(name, h, w, T(_)) ==
  /\ \A q \in CommRanks :
       /\ QP_Arg(name, q).height = h
       /\ QP_Arg(name, q).width = w
       /\ StoredPositions(QP_Arg(name, q)) \subseteq Indices(h, w)
  /\ \A x \in Indices(h, w) :
       /\ QP_StoredAt(name, x, 0) <= 1
       /\ QP_ValueAt(name, x, 0) = T(x)

\* The quadratic program of the problem statement.
Q_Target(x) == IF x[1] = x[2] /\ x[1] < IPM_n THEN 1 ELSE 0
c_Target(x) == IF x[1] >= IPM_n + 1 /\ x[1] <= IPM_n + IPM_m THEN lambda ELSE 0
G_Target(x) ==
  IF x[1] < IPM_m
  THEN IF x[2] < IPM_n THEN (0 - d[x[1]]) * A_Get(x[1], x[2])
       ELSE IF x[2] = IPM_n THEN 0 - d[x[1]]
       ELSE IF x[2] = IPM_n + 1 + x[1] THEN 0 - 1 ELSE 0
  ELSE IF x[2] = IPM_n + 1 + (x[1] - IPM_m) THEN 0 - 1 ELSE 0
h_Target(x) == IF x[1] < IPM_m THEN 0 - 1 ELSE 0
Empty_Target(x) == 0

\* C38: each of the four svm::IPM overloads hands QP the same quadratic
\* program for the same (A, d, lambda): Q is (n+m+1) x (n+m+1) with the
\* n x n identity in its top-left block and zero elsewhere, c is zero
\* except lambda in rows n+1..n+m, AHat is 0 x (n+m+1), b is 0 x 1,
\* G = [-diag(d)A, -d, -I; 0, 0, -I] is 2m x (n+m+1), and h is -1 in its
\* first m rows and 0 in its last m.
IPM_SameProgram ==
  QP_Called =>
    /\ Assembles("Q", IPM_n + IPM_m + 1, IPM_n + IPM_m + 1, Q_Target)
    /\ Assembles("c", IPM_n + IPM_m + 1, 1, c_Target)
    /\ Assembles("AHat", 0, IPM_n + IPM_m + 1, Empty_Target)
    /\ Assembles("b", 0, 1, Empty_Target)
    /\ Assembles("G", 2 * IPM_m, IPM_n + IPM_m + 1, G_Target)
    /\ Assembles("h", 2 * IPM_m, 1, h_Target)

\* The DistSparseMatrix overload has reached QP on two processes for a
\* 2 x 1 matrix A with an entry in each row: G is 4 x 4 with eight
\* entries, six of them on process 0, which owns rows 0 and 1.
IPM_SameProgram_Witness ==
  /\ QP_Called /\ op = "DistIPM" /\ commSize = 2
  /\ IPM_m = 2 /\ IPM_n = 1 /\ numEntriesA = 2
  /\ Len(qp[0].G.entries) = 6 /\ Len(qp[1].G.entries) = 2
  /\ qp[1].h.at = [x \in {<<2, 0>>, <<3, 0>>} |-> 0]
  /\ qp[0].c.at[<<1, 0>>] = 0 /\ qp[1].c.at[<<2, 0>>] = lambda

====
